---- MODULE Spec2Model ----
(***************************************************************************)
(* Model of the authentication middleware (processToken, auth, optional,   *)
(* developer), of the account store it reads (userDAO) and of the user     *)
(* routes that create, log in and deactivate accounts (userController).    *)
(*                                                                         *)
(* JavaScript values:                                                      *)
(*   - a string is kept as the list of its space-separated segments, which *)
(*     is what String.split(' ') returns; [def, val] tells undefined from  *)
(*     a string.  A segment is a word [w |-> "..."] or a signed token      *)
(*     [key, payload, exp];                                                *)
(*   - an object is a record; a property that is absent reads as the       *)
(*     JavaScript value undefined.                                         *)
(***************************************************************************)
EXTENDS Integers, Sequences, FiniteSets, TLC

(* ------------------------------- bounds ------------------------------- *)

\* accounts the store can hold
MaxUsers == 2
\* last value of the clock (days)
MaxNow == 1

(* ------------------------- JavaScript values -------------------------- *)

Undefined == [def |-> FALSE, val |-> <<>>]
Str(segs) == [def |-> TRUE, val |-> segs]
Word(w) == [w |-> w]
\* the one-word string w
S(w) == Str(<<Word(w)>>)
IsJwt(seg) == "key" \in DOMAIN seg
\* !v for a string-or-undefined value: undefined and "" are falsy
Falsy(v) == (~v.def) \/ (v.val = <<Word("")>>)
\* obj.name, undefined when the object has no such property
Prop(obj, name) == IF name \in DOMAIN obj THEN obj[name] ELSE Undefined

\* String.length of a string of words
RECURSIVE SegsLength(_)
SegsLength(segs) ==
    IF segs = <<>> THEN 0
    ELSE Len(Head(segs).w) + (IF Len(segs) > 1 THEN 1 ELSE 0) + SegsLength(Tail(segs))
StrLength(v) == SegsLength(v.val)

\* String.toUpperCase on the words the program's messages are made of
ToUpperCase(w) ==
    CASE w = "jwt" -> "JWT"
      [] w = "malformed" -> "MALFORMED"
      [] w = "invalid" -> "INVALID"
      [] w = "signature" -> "SIGNATURE"
      [] w = "expired" -> "EXPIRED"
      [] w = "Can't" -> "CAN'T"
      [] w = "reach" -> "REACH"
      [] w = "database" -> "DATABASE"
      [] w = "server" -> "SERVER"
      [] OTHER -> w
UpperSegs(segs) == [i \in 1..Len(segs) |-> Word(ToUpperCase(segs[i].w))]
\* String.replace(' ', '_'): the FIRST space only
ReplaceFirstSpace(segs) ==
    IF Len(segs) < 2 THEN segs
    ELSE <<Word(segs[1].w \o "_" \o segs[2].w)>> \o SubSeq(segs, 3, Len(segs))

(* --------------------------- program constants ------------------------ *)

\* jwt.sign(..., { expiresIn: '7d' }), in days
TokenTTL == 7
\* process.env.DEV_SECRET?.length < 5
MinDevSecretLength == 5

(* ------------------------------ values -------------------------------- *)

Bool(b) == [bool |-> b]
Num(n) == [num |-> n]
\* the null a lookup returns when no row matches
Null == [null |-> TRUE]
\* req.decoded before any middleware has set it
NoDecoded == [unset |-> TRUE]
\* req.decoded = { none: true }
Anonymous == [none |-> Bool(TRUE)]

Usernames == {"ana", "budi"}
\* the password accounts are created with, and the ones a login may try
SignupPassword == "pw1"
Passwords == {"pw1", "pw2"}
Salt == "salt"
\* crypto.generatePassword(password, salt): a hash, one value per (password, salt)
generatePassword(password, salt) == <<password, salt>>

\* what login signs for the account with this id and username
LoginPayload(id, username) ==
    [authenticated |-> Bool(TRUE), id |-> id, username |-> username]

\* payloads of the presented tokens that login did not sign itself: the claim
\* "authenticated" true, truthy but not true, or absent
ForeignPayloads ==
    {LoginPayload(i, "ana") : i \in 1..MaxUsers}
      \cup {[authenticated |-> Num(1), id |-> 1, username |-> "ana"],
            [id |-> 1, username |-> "ana"]}
ForeignTokens ==
    {[key |-> <<Word("k1")>>, payload |-> p, exp |-> 1] : p \in ForeignPayloads}
      \cup {[key |-> <<Word("k2")>>, payload |-> LoginPayload(1, "ana"), exp |-> 1]}

(* --------------------------- account store ---------------------------- *)

\* UserDAO.getById over the rows `us` (ids are the autoincrement positions)
getById(us, id) == IF id \in 1..Len(us) THEN us[id] ELSE Null
\* UserDAO.getByUsername
getByUsername(us, username) ==
    IF \E i \in 1..Len(us) : us[i].username = username
    THEN us[CHOOSE i \in 1..Len(us) : us[i].username = username]
    ELSE Null
\* UserDAO.create: a new row, active by the column default
create(us, username, password, salt) ==
    Append(us, [id |-> Len(us) + 1, username |-> username, password |-> password,
                salt |-> salt, active |-> TRUE])
\* a softDelete that flips the flag: a second call restores the account
softDelete_Toggle(us, id) == [us EXCEPT ![id].active = ~@]

\* UserDAO.softDelete: the row stays, active = false
softDelete(us, id) == [us EXCEPT ![id].active = FALSE]

(* ----------------------------- jsonwebtoken --------------------------- *)

\* jwt.sign(payload, secret, { expiresIn: '7d' }) at time t
jwtSign(payload, secret, t) ==
    IF Falsy(secret)
    THEN [ok |-> FALSE, message |-> Str(<<Word("secretOrPrivateKey"), Word("must"),
                                          Word("have"), Word("a"), Word("value")>>)]
    ELSE [ok |-> TRUE, token |-> [key |-> secret.val, payload |-> payload,
                                  exp |-> t + TokenTTL]]

\* jwt.verify that does not look at the expiry
jwtVerify_NoExpiry(token, secret, t) ==
    IF ~IsJwt(token.val[1])
    THEN [ok |-> FALSE, message |-> Str(<<Word("jwt"), Word("malformed")>>)]
    ELSE IF token.val[1].key # secret.val
    THEN [ok |-> FALSE, message |-> Str(<<Word("invalid"), Word("signature")>>)]
    ELSE [ok |-> TRUE, payload |-> token.val[1].payload]

\* jwt.decode in the place of jwt.verify: the signature is not checked
jwtVerify_NoSignature(token, secret, t) ==
    IF ~IsJwt(token.val[1])
    THEN [ok |-> FALSE, message |-> Str(<<Word("jwt"), Word("malformed")>>)]
    ELSE IF t >= token.val[1].exp
    THEN [ok |-> FALSE, message |-> Str(<<Word("jwt"), Word("expired")>>)]
    ELSE [ok |-> TRUE, payload |-> token.val[1].payload]

\* jwt.verify(token, secret) at time t: the decoded payload, or the message of
\* the error thrown (malformed, then signature, then expiry)
jwtVerify(token, secret, t) ==
    IF ~IsJwt(token.val[1])
    THEN [ok |-> FALSE, message |-> Str(<<Word("jwt"), Word("malformed")>>)]
    ELSE IF token.val[1].key # secret.val
    THEN [ok |-> FALSE, message |-> Str(<<Word("invalid"), Word("signature")>>)]
    ELSE IF t >= token.val[1].exp
    THEN [ok |-> FALSE, message |-> Str(<<Word("jwt"), Word("expired")>>)]
    ELSE [ok |-> TRUE, payload |-> token.val[1].payload]

(* ------------------------------ errors -------------------------------- *)

\* new RequestError(message, status, code)
RequestError(message, status, code) ==
    [kind |-> "RequestError", message |-> message, status |-> status, code |-> code]
\* new BadRequestError(message, code)
BadRequestError(message, code) ==
    [kind |-> "BadRequestError", message |-> message, code |-> code]
\* new EntityNotFoundError(entity, key)
EntityNotFoundError(entity) == [kind |-> "EntityNotFoundError", message |-> entity]
\* new InternalServerError(error)
InternalServerError == [kind |-> "InternalServerError"]
\* next() without an argument
NextOk == [kind |-> "next"]

(* ---------------------------- middleware ------------------------------ *)

\* req.headers['authorization'].split(' ')[1]
HeaderToken(header) ==
    IF Len(header.val) >= 2 THEN Str(<<header.val[2]>>) ELSE Undefined

\* message.toUpperCase().replace(' ', '_')
ErrorCode(message) == Str(ReplaceFirstSpace(UpperSegs(message.val)))

\* processToken with one code for a missing header and a missing token
processTokenSync_OneNoTokenCode(header, secret, t) ==
    IF ~Falsy(header) /\ ~Falsy(HeaderToken(header))
    THEN IF Falsy(secret)
         THEN [cb |-> "error", arg |-> [message |-> S("NO_SECRET_DEFINED")]]
         ELSE LET v == jwtVerify(HeaderToken(header), secret, t) IN
              IF v.ok
              THEN [cb |-> "await", decoded |-> v.payload]
              ELSE [cb |-> "error",
                    arg |-> [msg |-> ErrorCode(v.message), err |-> [message |-> v.message]]]
    ELSE [cb |-> "error", arg |-> [msg |-> S("NO_TOKEN_PROVIDED")]]

\* processToken up to its first await: the error callback's argument, or the
\* decoded payload with which UserDAO.getById is awaited
processTokenSync(header, secret, t) ==
    IF ~Falsy(header)
    THEN LET token == HeaderToken(header) IN
         IF ~Falsy(token)
         THEN IF Falsy(secret)
              THEN [cb |-> "error", arg |-> [message |-> S("NO_SECRET_DEFINED")]]
              ELSE LET v == jwtVerify(token, secret, t) IN
                   IF v.ok
                   THEN [cb |-> "await", decoded |-> v.payload]
                   ELSE [cb |-> "error",
                         arg |-> [msg |-> ErrorCode(v.message),
                                  err |-> [message |-> v.message]]]
         ELSE [cb |-> "error", arg |-> [msg |-> S("NO_TOKEN_PROVIDED")]]
    ELSE [cb |-> "error", arg |-> [msg |-> S("BAD_TOKEN_FORMAT")]]

\* the message of the error a failing store query throws
DbErrorMessage == Str(<<Word("Can't"), Word("reach"), Word("database"), Word("server")>>)

\* processToken that forgets decoded.user = user
processTokenResume_NoUserAttached(decoded, user, dbOk) ==
    IF ~dbOk
    THEN [cb |-> "error",
          arg |-> [msg |-> ErrorCode(DbErrorMessage), err |-> [message |-> DbErrorMessage]]]
    ELSE IF user = Null
    THEN [cb |-> "error", arg |-> [msg |-> S("USER_NOT_FOUND")]]
    ELSE IF ~user.active
    THEN [cb |-> "error", arg |-> [msg |-> S("ACCOUNT_DEACTIVATED")]]
    ELSE [cb |-> "success", decoded |-> decoded]

\* processToken without the check of user.active
processTokenResume_NoActiveCheck(decoded, user, dbOk) ==
    IF ~dbOk
    THEN [cb |-> "error",
          arg |-> [msg |-> ErrorCode(DbErrorMessage), err |-> [message |-> DbErrorMessage]]]
    ELSE IF user = Null
    THEN [cb |-> "error", arg |-> [msg |-> S("USER_NOT_FOUND")]]
    ELSE [cb |-> "success", decoded |-> [user |-> user] @@ decoded]

\* processToken after the await: `user` is what getById returned, dbOk is
\* FALSE when the query threw instead
processTokenResume(decoded, user, dbOk) ==
    IF ~dbOk
    THEN [cb |-> "error",
          arg |-> [msg |-> ErrorCode(DbErrorMessage), err |-> [message |-> DbErrorMessage]]]
    ELSE IF user = Null
    THEN [cb |-> "error", arg |-> [msg |-> S("USER_NOT_FOUND")]]
    ELSE IF ~user.active
    THEN [cb |-> "error", arg |-> [msg |-> S("ACCOUNT_DEACTIVATED")]]
    ELSE [cb |-> "success", decoded |-> [user |-> user] @@ decoded]

\* auth's success callback with a truthiness test in the place of === true
authOnSuccess_Truthy(decoded) ==
    IF Prop(decoded, "authenticated") \in {Bool(TRUE), Num(1)}
    THEN NextOk
    ELSE RequestError("Authentication required", 403, S("NO_AUTH_DATA"))

\* auth's success callback: the argument it passes to next
authOnSuccess(decoded) ==
    IF Prop(decoded, "authenticated") = Bool(TRUE)
    THEN NextOk
    ELSE RequestError("Authentication required", 403, S("NO_AUTH_DATA"))

\* auth's error callback: the argument it passes to next
authOnError(err) == RequestError("Authentication failed", 403, Prop(err, "msg"))

\* developer without the minimum length of the secret
developer_NoMinLength(header, secret) ==
    IF Falsy(secret)
    THEN RequestError("Invalid auth", 403, S("INVALID_AUTH"))
    ELSE IF header = secret
    THEN NextOk
    ELSE RequestError("Invalid auth", 403, S("INVALID_AUTH"))

\* developer: the argument it passes to next
developer(header, secret) ==
    IF Falsy(secret) \/ StrLength(secret) < MinDevSecretLength
    THEN RequestError("Invalid auth", 403, S("INVALID_AUTH"))
    ELSE IF header = secret
    THEN NextOk
    ELSE RequestError("Invalid auth", 403, S("INVALID_AUTH"))

(* ------------------------------- state -------------------------------- *)

VARIABLES
    env,    \* process.env: TOKEN_SECRET and DEV_SECRET, fixed at start
    users,  \* the users table, row i has id i
    now,    \* the clock, in days
    reqs,   \* the requests in flight, one per connection
    patients,   \* the patient table, in insertion order
    staffs,     \* the staff table, in insertion order
    histories,  \* the medical_history table, in insertion order
    report,     \* the progress-report request in flight
    visitors,   \* the visitors table, in insertion order
    calls       \* the clinic requests in flight, one per connection

vars == <<env, users, now, reqs, patients, staffs, histories, report, visitors, calls>>
\* the account side and the clinic side of the state
authVars == <<env, users, now, reqs>>
clinicVars == <<patients, staffs, histories, report, visitors, calls>>

\* two clients: c1 sends any request; c2, running beside it, signs accounts up
\* and deactivates them with the tokens the logins have answered with
Conns == {"c1", "c2"}

\* the gate each route is mounted behind (userRoutes; "handler" stands for
\* any route handler that does not write the users table)
Routes ==
    {[mode |-> "none", route |-> "createUser"],
     [mode |-> "none", route |-> "login"],
     [mode |-> "auth", route |-> "deleteOwnAccount"],
     [mode |-> "auth", route |-> "handler"],
     [mode |-> "optional", route |-> "handler"],
     [mode |-> "developer", route |-> "handler"]}

Envs ==
    {[TOKEN_SECRET |-> S("k1"), DEV_SECRET |-> S("abcde")],
     [TOKEN_SECRET |-> S(""), DEV_SECRET |-> S("abcd")],
     [TOKEN_SECRET |-> Undefined, DEV_SECRET |-> Undefined]}

Bearer(seg) == Str(<<Word("Bearer"), seg>>)

\* Authorization headers a client may send to a route behind auth or optional,
\* besides a token it was given
FixedHeaders ==
    {Undefined, S(""), S("Bearer"), Bearer(Word("")), Bearer(Word("garbage")),
     S("abcde")}
      \cup {Bearer(tk) : tk \in ForeignTokens}
\* and to a route behind developer
DeveloperHeaders == {Undefined, S("abcd"), S("abcde"), Bearer(Word("garbage"))}

SignupBodies == [username : Usernames, password : {SignupPassword}]
LoginBodies == [username : Usernames, password : Passwords]
NoBody == [username |-> "", password |-> ""]

\* the lookup of processToken has not answered (yet), or has thrown
NotYet == [pending |-> TRUE]
Threw == [threw |-> TRUE]

\* A request: the route and its gate, the Authorization header and the body,
\* req.decoded, processToken's local `decoded` while it awaits, and the response.
\* What happened to it is recorded beside: whether a presented token was still
\* unexpired on arrival, how often processToken ran, what getById answered,
\* the callbacks processToken called, the arguments the gate passed to next
\* and how often the route handler was entered.
Idle ==
    [pc |-> "idle", mode |-> "none", route |-> "none", header |-> Undefined,
     body |-> NoBody, decoded |-> NoDecoded, local |-> Null, res |-> Null,
     unexpired |-> FALSE, verifier |-> 0, found |-> NotYet,
     calls |-> <<>>, nexts |-> <<>>, entered |-> 0]

\* the tokens the finished login requests have answered with
GivenTokens ==
    {reqs[c].res.token : c \in {d \in Conns : "token" \in DOMAIN reqs[d].res}}

\* no progress-report request has arrived
NoReport ==
    [pc |-> "idle", param |-> [digits |-> <<>>, rest |-> ""], patientId |-> Null,
     db |-> "none", rows |-> <<>>, tasks |-> <<>>, res |-> Null]

\* no clinic request is in flight on a connection
NoCall == [pc |-> "idle", op |-> "none", id |-> 0, body |-> <<>>, res |-> Null]

\* the clinic tables are empty and no clinic request is in flight
NoClinic ==
    /\ patients = <<>>
    /\ staffs = <<>>
    /\ histories = <<>>
    /\ report = NoReport
    /\ visitors = <<>>
    /\ calls = [c \in Conns |-> NoCall]

Init ==
    /\ env \in Envs
    /\ users = <<>>
    /\ now = 0
    /\ reqs = [c \in Conns |-> Idle]
    /\ NoClinic

(* ---------------------------- route handlers -------------------------- *)

\* the handler's response: res.send(...) or the error it passes to next
Finish(req, res) == [req EXCEPT !.pc = "done", !.res = res]

\* a route handler from its entry to its first await
EnterHandler(req0) ==
    LET req == [req0 EXCEPT !.entered = @ + 1] IN
    CASE req.route = "createUser" -> [req EXCEPT !.pc = "createCheck"]
      [] req.route = "login" -> [req EXCEPT !.pc = "loginGet"]
      [] req.route = "deleteOwnAccount" ->
            IF "id" \notin DOMAIN req.decoded \/ req.decoded.id = 0
            THEN Finish(req, BadRequestError("Invalid token data", "INVALID_TOKEN_DATA"))
            ELSE [req EXCEPT !.pc = "deleteGet"]
      [] OTHER -> Finish(req, [sent |-> TRUE])

\* createUser after UserDAO.getByUsername
createUserCheck(req, us) ==
    IF getByUsername(us, req.body.username) # Null
    THEN Finish(req, BadRequestError("Username already exists!", "USERNAME_EXISTS"))
    ELSE [req EXCEPT !.pc = "createInsert"]

\* login after UserDAO.getByUsername
login(req, us, secret, t) ==
    LET user == getByUsername(us, req.body.username) IN
    IF user = Null THEN Finish(req, EntityNotFoundError("Username"))
    ELSE IF ~user.active
    THEN Finish(req, BadRequestError(
             "Your account is deactivated. Please contact administrator.",
             "ACCOUNT_DEACTIVATED"))
    ELSE IF generatePassword(req.body.password, user.salt) # user.password
    THEN Finish(req, BadRequestError("Invalid username or password!", ""))
    ELSE LET signed == jwtSign(LoginPayload(user.id, user.username), secret, t) IN
         IF signed.ok
         THEN Finish(req, [token |-> signed.token, id |-> user.id])
         ELSE Finish(req, InternalServerError)

(* -------------------------------- gates ------------------------------- *)

\* the gate calls next(arg): an error ends the request, otherwise the route
\* handler is entered
CallNext(req0, arg) ==
    LET req == [req0 EXCEPT !.nexts = Append(@, arg), !.local = Null] IN
    IF arg = NextOk THEN EnterHandler(req) ELSE [req EXCEPT !.pc = "done"]

\* what the gate does with processToken's callback
authCallback(req, pt) ==
    IF pt.cb = "success"
    THEN LET r == [req EXCEPT !.decoded = pt.decoded, !.calls = Append(@, pt)]
         IN CallNext(r, authOnSuccess(r.decoded))
    ELSE CallNext([req EXCEPT !.calls = Append(@, pt)], authOnError(pt.arg))

\* optional that surfaces a failed verification the way auth does
optionalCallback_Surfacing(req, pt) ==
    IF pt.cb = "success"
    THEN CallNext([req EXCEPT !.decoded = pt.decoded, !.calls = Append(@, pt)], NextOk)
    ELSE CallNext([req EXCEPT !.calls = Append(@, pt)], authOnError(pt.arg))

optionalCallback(req, pt) ==
    IF pt.cb = "success"
    THEN CallNext([req EXCEPT !.decoded = pt.decoded, !.calls = Append(@, pt)], NextOk)
    ELSE CallNext([req EXCEPT !.decoded = Anonymous, !.calls = Append(@, pt)], NextOk)

\* processToken called by a gate: either it calls back at once, or the
\* request waits for UserDAO.getById
RunVerifier(req0, secret, t) ==
    LET req == [req0 EXCEPT !.verifier = @ + 1]
        pt == processTokenSync(req.header, secret, t) IN
    IF pt.cb = "await"
    THEN [req EXCEPT !.pc = "lookup", !.local = pt.decoded]
    ELSE IF req.mode = "auth" THEN authCallback(req, pt) ELSE optionalCallback(req, pt)

auth(req, secret, t) == RunVerifier(req, secret, t)

\* optional without the return after next() for a request with no header
optional_NoReturn(req, secret, t) ==
    IF Falsy(req.header)
    THEN RunVerifier(CallNext([req EXCEPT !.decoded = Anonymous], NextOk), secret, t)
    ELSE RunVerifier(req, secret, t)

optional(req, secret, t) ==
    IF Falsy(req.header)
    THEN CallNext([req EXCEPT !.decoded = Anonymous], NextOk)
    ELSE RunVerifier(req, secret, t)

\* the middleware chain of the route, up to the first await
Dispatch(req) ==
    CASE req.mode = "auth" -> auth(req, env.TOKEN_SECRET, now)
      [] req.mode = "optional" -> optional(req, env.TOKEN_SECRET, now)
      [] req.mode = "developer" -> CallNext(req, developer(req.header, env.DEV_SECRET))
      [] OTHER -> EnterHandler(req)

(* ------------------------------- actions ------------------------------ *)

Arrive(rt, header, body) ==
    [Idle EXCEPT !.mode = rt.mode, !.route = rt.route, !.header = header, !.body = body,
                 !.unexpired = /\ Len(header.val) >= 2
                               /\ IsJwt(header.val[2])
                               /\ now < header.val[2].exp]

\* the requests a client may send: a route with the Authorization header and
\* the body the route reads
Requests(c) ==
    LET given == {Bearer(tk) : tk \in GivenTokens}
        tokened == {rt \in Routes : rt.mode \in {"auth", "optional"}}
    IN IF c = "c1"
       THEN {Arrive(rt, h, NoBody) : rt \in tokened, h \in FixedHeaders \cup given}
              \cup {Arrive([mode |-> "developer", route |-> "handler"], h, NoBody) :
                      h \in DeveloperHeaders}
              \cup {Arrive([mode |-> "none", route |-> "createUser"], Undefined, b) :
                      b \in SignupBodies}
              \cup {Arrive([mode |-> "none", route |-> "login"], Undefined, b) :
                      b \in LoginBodies}
       ELSE {Arrive([mode |-> "auth", route |-> "deleteOwnAccount"], h, NoBody) :
               h \in given}
              \cup {Arrive([mode |-> "none", route |-> "createUser"], Undefined, b) :
                      b \in SignupBodies}

Creating == {c \in Conns : reqs[c].pc \in {"createCheck", "createInsert"}}

\* a request arrives on connection c
Start(c) ==
    /\ reqs[c].pc \in {"idle", "done"}
    /\ \E req \in Requests(c) :
         /\ req.route = "createUser" => Len(users) + Cardinality(Creating) < MaxUsers
         /\ reqs' = [reqs EXCEPT ![c] = Dispatch(req)]
    /\ UNCHANGED <<env, users, now, clinicVars>>

\* processToken resumes after await UserDAO.getById(decoded.id)
Lookup(c) ==
    /\ reqs[c].pc = "lookup"
    /\ \E dbOk \in BOOLEAN :
         LET user == getById(users, reqs[c].local.id)
             req == [reqs[c] EXCEPT !.found = IF dbOk THEN user ELSE Threw]
             pt == processTokenResume(req.local, user, dbOk) IN
         reqs' = [reqs EXCEPT ![c] =
                     IF req.mode = "auth" THEN authCallback(req, pt)
                     ELSE optionalCallback(req, pt)]
    /\ UNCHANGED <<env, users, now, clinicVars>>

\* createUser resumes after await UserDAO.getByUsername
CreateCheck(c) ==
    /\ reqs[c].pc = "createCheck"
    /\ reqs' = [reqs EXCEPT ![c] = createUserCheck(reqs[c], users)]
    /\ UNCHANGED <<env, users, now, clinicVars>>

\* createUser: UserDAO.create; the unique index on username rejects a duplicate
CreateInsert(c) ==
    /\ reqs[c].pc = "createInsert"
    /\ LET req == reqs[c] IN
       IF getByUsername(users, req.body.username) # Null
       THEN /\ reqs' = [reqs EXCEPT ![c] = Finish(req, InternalServerError)]
            /\ users' = users
       ELSE /\ users' = create(users, req.body.username,
                               generatePassword(req.body.password, Salt), Salt)
            /\ reqs' = [reqs EXCEPT ![c] = Finish(req, [id |-> Len(users) + 1])]
    /\ UNCHANGED <<env, now, clinicVars>>

\* login resumes after await UserDAO.getByUsername
LoginGet(c) ==
    /\ reqs[c].pc = "loginGet"
    /\ reqs' = [reqs EXCEPT ![c] = login(reqs[c], users, env.TOKEN_SECRET, now)]
    /\ UNCHANGED <<env, users, now, clinicVars>>

\* deleteOwnAccount resumes after await UserDAO.getById
DeleteGet(c) ==
    /\ reqs[c].pc = "deleteGet"
    /\ reqs' = [reqs EXCEPT ![c] =
                   IF getById(users, reqs[c].decoded.id) = Null
                   THEN Finish(reqs[c], EntityNotFoundError("User"))
                   ELSE [reqs[c] EXCEPT !.pc = "deleteSoft"]]
    /\ UNCHANGED <<env, users, now, clinicVars>>

\* deleteOwnAccount: await UserDAO.softDelete, then the response
DeleteSoft(c) ==
    /\ reqs[c].pc = "deleteSoft"
    /\ users' = softDelete(users, reqs[c].decoded.id)
    /\ reqs' = [reqs EXCEPT ![c] = Finish(reqs[c], [id |-> reqs[c].decoded.id])]
    /\ UNCHANGED <<env, now, clinicVars>>

\* a day passes
Tick ==
    /\ now < MaxNow
    /\ now' = now + 1
    /\ UNCHANGED <<env, users, reqs, clinicVars>>

Next ==
    \/ \E c \in Conns : Start(c)
    \/ \E c \in Conns : Lookup(c)
    \/ \E c \in Conns : CreateCheck(c)
    \/ \E c \in Conns : CreateInsert(c)
    \/ \E c \in Conns : LoginGet(c)
    \/ \E c \in Conns : DeleteGet(c)
    \/ \E c \in Conns : DeleteSoft(c)
    \/ Tick

Spec == Init /\ [][Next]_vars

(* ------------------------- vocabulary of the claims -------------------- *)

\* the request went through processToken and processToken has called back
Verified(req) == req.verifier > 0 /\ req.calls # <<>>
VerifierFailed(req) == Verified(req) /\ req.calls[1].cb = "error"
VerifierSucceeded(req) == Verified(req) /\ req.calls[1].cb = "success"
\* the code a failure of the verifier carries: the msg of the object it hands
\* over, or the message of the Error it hands over
FailureCode(err) == IF "msg" \in DOMAIN err THEN err.msg ELSE err.message
FailedWith(req, code) ==
    /\ VerifierFailed(req)
    /\ Len(req.calls) = 1
    /\ FailureCode(req.calls[1].arg) = S(code)

\* the header carries a signed token after the scheme
PresentsJwt(req) ==
    /\ req.header.def
    /\ Len(req.header.val) >= 2
    /\ IsJwt(req.header.val[2])
TokenOf(req) == req.header.val[2]
\* ... signed with the server's secret
CorrectlySigned(req) ==
    /\ PresentsJwt(req)
    /\ ~Falsy(env.TOKEN_SECRET)
    /\ TokenOf(req).key = env.TOKEN_SECRET.val
IsAccount(x) == "username" \in DOMAIN x
\* req.decoded carries a resolved account record
HasIdentity(req) == "user" \in DOMAIN req.decoded
\* the gate answered the caller with this error and the handler never ran
Refused(req, err) == req.entered = 0 /\ req.nexts = <<err>> /\ req.pc = "done"
\* the gate let the request through to the route handler, once
Admitted(req) == req.entered = 1 /\ req.nexts = <<NextOk>>

(* -------------------------------- claims ------------------------------ *)

\* C1: in required mode (auth), whenever the verifier fails, the wrapped
\* operation is not invoked and the caller receives the error "Authentication
\* failed" that carries the verifier's failure code.
C1_AuthFailureCarriesVerifierCode ==
    \A c \in Conns :
      LET req == reqs[c] IN
      (req.mode = "auth" /\ VerifierFailed(req)) =>
        Refused(req, RequestError("Authentication failed", 403,
                                  FailureCode(req.calls[1].arg)))

\* C2: for an existing active account and a correctly signed, unexpired token
\* bound to it, the verifier succeeds and the identity attached to the request
\* carries that account's identifier and the account record the store returned.
C2_ValidTokenYieldsIdentity ==
    \A c \in Conns :
      LET req == reqs[c] IN
      (/\ req.mode \in {"auth", "optional"}
       /\ CorrectlySigned(req) /\ req.unexpired
       /\ IsAccount(req.found) /\ req.found.active) =>
        /\ VerifierSucceeded(req) /\ Len(req.calls) = 1
        /\ HasIdentity(req)
        /\ req.decoded.id = TokenOf(req).payload.id
        /\ req.decoded.user = req.found
        /\ req.found.id = TokenOf(req).payload.id

\* C2 happens: a token that login signed for an active account is presented
\* to auth and the route handler runs with the identity.
C2_Witness ==
    \E c \in Conns :
      LET req == reqs[c] IN
      /\ req.mode = "auth" /\ CorrectlySigned(req) /\ req.unexpired
      /\ IsAccount(req.found) /\ req.found.active
      /\ TokenOf(req).payload = LoginPayload(req.found.id, req.found.username)
      /\ TokenOf(req).exp >= TokenTTL
      /\ HasIdentity(req) /\ Admitted(req)

\* the header names a scheme and a non-empty token segment after it
HasTokenSegment(req) ==
    /\ req.header.def
    /\ Len(req.header.val) >= 2
    /\ req.header.val[2] # Word("")
\* the presented token names an account that is stored and deactivated
BoundToDeactivated(req, us) ==
    /\ PresentsJwt(req)
    /\ TokenOf(req).payload.id \in 1..Len(us)
    /\ ~us[TokenOf(req).payload.id].active
\* this step is the one in which processToken calls back on connection c
Completes(c) ==
    /\ Verified(reqs'[c])
    /\ \/ reqs[c].pc = "lookup"
       \/ reqs[c].pc \in {"idle", "done"} /\ reqs'[c] # reqs[c]

\* C3, as claimed: a token bound to a deactivated account fails verification
\* with ACCOUNT_DEACTIVATED whether or not its signature and expiry are valid
\* (the store answering the lookup, if there is one).
C3_DeactivatedWhateverSignature ==
    [][\A c \in Conns :
         (/\ Completes(c)
          /\ BoundToDeactivated(reqs'[c], users)
          /\ reqs'[c].found # Threw) =>
           FailedWith(reqs'[c], "ACCOUNT_DEACTIVATED")]_vars

\* C3, amended: a token bound to a deactivated account always fails
\* verification; it fails with ACCOUNT_DEACTIVATED when the signing secret is
\* set, the token is correctly signed and unexpired and the store answers, with
\* INVALID_SIGNATURE when the secret is set and the signature is wrong, and with
\* JWT_EXPIRED when the signature is right and the token has expired.
C3_DeactivatedAfterSignature ==
    [][\A c \in Conns :
         LET req == reqs'[c] IN
         (Completes(c) /\ BoundToDeactivated(req, users)) =>
           /\ VerifierFailed(req)
           /\ ~HasIdentity(req)
           /\ (CorrectlySigned(req) /\ req.unexpired /\ req.found # Threw)
                => FailedWith(req, "ACCOUNT_DEACTIVATED")
           /\ (CorrectlySigned(req) /\ ~req.unexpired) => FailedWith(req, "JWT_EXPIRED")
           /\ (~Falsy(env.TOKEN_SECRET) /\ ~CorrectlySigned(req))
                => FailedWith(req, "INVALID_SIGNATURE")]_vars

\* C3 happens: a correctly signed, unexpired token of an account that has been
\* deactivated is refused with ACCOUNT_DEACTIVATED.
C3_Witness ==
    \E c \in Conns :
      LET req == reqs[c] IN
      /\ req.mode = "auth" /\ CorrectlySigned(req) /\ req.unexpired
      /\ IsAccount(req.found) /\ ~req.found.active
      /\ FailedWith(req, "ACCOUNT_DEACTIVATED")

\* C4, as claimed: a request without Authorization header and a request whose
\* header has no token segment fail verification with the same failure kind:
\* the code of the second is the code the verifier gives the first.
C4_SameKindNoToken ==
    \A c \in Conns :
      LET req == reqs[c] IN
      (Verified(req) /\ ~Falsy(req.header) /\ ~HasTokenSegment(req)) =>
        /\ VerifierFailed(req)
        /\ FailureCode(req.calls[1].arg)
             = FailureCode(processTokenSync(Undefined, env.TOKEN_SECRET, now).arg)

\* C4, amended: both fail verification and attach no identity, but with
\* different codes: BAD_TOKEN_FORMAT without (or with an empty) header,
\* NO_TOKEN_PROVIDED for a header without a token segment.
C4_NoHeaderNoTokenCodes ==
    \A c \in Conns :
      LET req == reqs[c] IN
      (Verified(req) /\ ~HasTokenSegment(req)) =>
        /\ ~HasIdentity(req)
        /\ Falsy(req.header) => FailedWith(req, "BAD_TOKEN_FORMAT")
        /\ ~Falsy(req.header) => FailedWith(req, "NO_TOKEN_PROVIDED")

\* C4 happens: auth has refused a request whose header is the scheme alone.
C4_Witness ==
    \E c \in Conns :
      /\ reqs[c].mode = "auth"
      /\ reqs[c].header = S("Bearer")
      /\ FailedWith(reqs[c], "NO_TOKEN_PROVIDED")
      /\ reqs[c].entered = 0

\* C5: with the signing secret unset, a request that presents a Bearer token
\* to auth is refused, the handler is not invoked, and the error carries the
\* code NO_SECRET_DEFINED.
C5_UnsetSecretCode ==
    \A c \in Conns :
      LET req == reqs[c] IN
      (/\ req.mode = "auth" /\ req.pc = "done"
       /\ Falsy(env.TOKEN_SECRET)
       /\ HasTokenSegment(req) /\ req.header.val[1] = Word("Bearer")) =>
        Refused(req, RequestError("Authentication failed", 403, S("NO_SECRET_DEFINED")))

\* C6: for a token that verifies, verification fails with USER_NOT_FOUND when
\* the embedded identifier resolves to no account and with ACCOUNT_DEACTIVATED
\* when it resolves to an account whose active flag is false; in neither case
\* is an identity attached to the request.
C6_UnknownOrInactiveAccount ==
    \A c \in Conns :
      LET req == reqs[c] IN
      (/\ req.mode \in {"auth", "optional"}
       /\ CorrectlySigned(req) /\ req.unexpired) =>
        /\ req.found = Null =>
             FailedWith(req, "USER_NOT_FOUND") /\ ~HasIdentity(req)
        /\ (IsAccount(req.found) /\ ~req.found.active) =>
             FailedWith(req, "ACCOUNT_DEACTIVATED") /\ ~HasIdentity(req)

\* C6 happens: a verified token whose identifier names no stored account is
\* refused with USER_NOT_FOUND.
C6_Witness ==
    \E c \in Conns :
      LET req == reqs[c] IN
      /\ req.mode = "auth" /\ CorrectlySigned(req) /\ req.unexpired
      /\ req.found = Null
      /\ TokenOf(req).payload.id > Len(users)
      /\ FailedWith(req, "USER_NOT_FOUND")
      /\ req.entered = 0

\* C7: in required mode, when verification succeeds but the token's claim
\* `authenticated` is not exactly true, the handler is not invoked and the
\* caller receives the error "Authentication required" with code NO_AUTH_DATA.
C7_NoAuthData ==
    \A c \in Conns :
      LET req == reqs[c] IN
      (/\ req.mode = "auth" /\ VerifierSucceeded(req)
       /\ Prop(TokenOf(req).payload, "authenticated") # Bool(TRUE)) =>
        /\ Refused(req, RequestError("Authentication required", 403, S("NO_AUTH_DATA")))
        /\ req.nexts[1].message # "Authentication failed"

\* C7 happens: a verified token whose claim `authenticated` is the number 1
\* is refused with NO_AUTH_DATA.
C7_Witness ==
    \E c \in Conns :
      LET req == reqs[c] IN
      /\ req.mode = "auth" /\ VerifierSucceeded(req)
      /\ Prop(TokenOf(req).payload, "authenticated") = Num(1)
      /\ req.nexts = <<RequestError("Authentication required", 403, S("NO_AUTH_DATA"))>>
      /\ req.entered = 0

\* C8: once the optional gate has finished, the handler has been invoked:
\* without the verifier having run and with the anonymous context when there
\* is no Authorization header, and with the anonymous context and no error
\* when a credential was presented and its verification failed.
C8_OptionalAlwaysAdmits ==
    \A c \in Conns :
      LET req == reqs[c] IN
      (req.mode = "optional" /\ req.pc # "lookup") =>
        /\ Admitted(req)
        /\ Falsy(req.header) => (req.verifier = 0 /\ req.decoded = Anonymous)
        /\ VerifierFailed(req) => req.decoded = Anonymous

\* C8 happens: optional has let a request with a refused credential through.
C8_Witness ==
    \E c \in Conns :
      LET req == reqs[c] IN
      /\ req.mode = "optional" /\ VerifierFailed(req)
      /\ HasTokenSegment(req)
      /\ Admitted(req) /\ req.decoded = Anonymous /\ req.pc = "done"

\* C9: on every path of every gate, req.decoded carries an account record only
\* if the token verified (signed with the server's secret, unexpired), the
\* account was found and the account was active; the record is the one found.
C9_IdentityOnlyWhenVerified ==
    \A c \in Conns :
      LET req == reqs[c] IN
      HasIdentity(req) =>
        /\ req.mode \in {"auth", "optional"}
        /\ CorrectlySigned(req) /\ req.unexpired
        /\ IsAccount(req.found) /\ req.found.active
        /\ req.decoded.user = req.found
        /\ VerifierSucceeded(req)

\* C9 happens: optional has attached the identity of a verified token.
C9_Witness ==
    \E c \in Conns :
      LET req == reqs[c] IN
      /\ req.mode = "optional" /\ HasIdentity(req)
      /\ req.decoded.user.id = TokenOf(req).payload.id
      /\ Admitted(req)

\* C10: the developer gate lets a request through if and only if DEV_SECRET is
\* set, is at least 5 long and equals the raw Authorization header; otherwise
\* the request is refused with INVALID_AUTH and the handler is not invoked.
C10_DeveloperGate ==
    \A c \in Conns :
      LET req == reqs[c]
          pass == /\ env.DEV_SECRET.def
                  /\ StrLength(env.DEV_SECRET) >= 5
                  /\ req.header = env.DEV_SECRET
      IN req.mode = "developer" =>
           /\ pass => Admitted(req) /\ req.pc = "done"
           /\ ~pass => Refused(req, RequestError("Invalid auth", 403, S("INVALID_AUTH")))
           /\ req.verifier = 0 /\ ~HasIdentity(req)

\* C10 happens: the developer gate has let the request with the secret through.
C10_Witness ==
    \E c \in Conns :
      /\ reqs[c].mode = "developer"
      /\ reqs[c].header = env.DEV_SECRET
      /\ Admitted(reqs[c])

\* a deactivated account stays stored and stays deactivated in this step
StaysDeactivated ==
    \A i \in 1..Len(users) :
      ~users[i].active =>
        /\ i <= Len(users')
        /\ users'[i] = users[i]

MaxHistories == 2
\* appointment dates are the days 1..MaxDate
MaxDate == 2

(* --------------------------- image references -------------------------- *)

\* the text scheme "://" host "/" stem suffix search, where suffix is the
\* part of the path from its last dot on; with an empty scheme the text is a
\* bare path such as "uploads/a.png"
Url(scheme, host, stem, suffix, search) ==
    [scheme |-> scheme, host |-> host, stem |-> stem, suffix |-> suffix,
     search |-> search]
EmptyText == Url("", "", "", "", "")

\* new URL(url): throws unless the text is an absolute URL; pathname leaves
\* the query string out
NewURL(url) ==
    IF url.scheme = ""
    THEN [ok |-> FALSE, pathname |-> <<>>]
    ELSE [ok |-> TRUE, pathname |-> <<"/" \o url.stem, url.suffix>>]

\* String.prototype.toLowerCase on the suffixes in use
ToLowerCase(w) ==
    CASE w = ".PNG" -> ".png"
      [] w = ".Jpg" -> ".jpg"
      [] w = ".PDF" -> ".pdf"
      [] OTHER -> w

validExtensions == <<".jpg", ".jpeg", ".png", ".gif", ".webp", ".bmp">>

\* pathname.endsWith(ext) for an extension ext, which starts with a dot and
\* holds no other dot: the path's part from its last dot on is ext
EndsWith(pathname, ext) == pathname[2] = ext

\* isValidImageUrl that looks for the extension anywhere in the text
isValidImageUrl_AnyText(url) ==
    IF url = Null \/ url = EmptyText THEN FALSE
    ELSE \E i \in DOMAIN validExtensions :
           \/ ToLowerCase(url.suffix) = validExtensions[i]
           \/ url.search = "?f=" \o validExtensions[i]

isValidImageUrl(url) ==
    IF url = Null \/ url = EmptyText THEN FALSE
    ELSE LET urlObj == NewURL(url) IN
         IF ~urlObj.ok THEN FALSE
         ELSE LET pathname == <<urlObj.pathname[1], ToLowerCase(urlObj.pathname[2])>> IN
              \E i \in DOMAIN validExtensions : EndsWith(pathname, validExtensions[i])

(* ------------------------------ retrieval ------------------------------ *)

\* what axios.get(imageUrl, {responseType: 'arraybuffer', timeout: 10000})
\* can end with: a 2xx response, with or without a content-type header,
\* carrying the bytes served at the URL, or a rejection
Outcomes(imageUrl) ==
    {[kind |-> "ok", contentType |-> S("image/png"), data |-> [bytesAt |-> imageUrl]],
     [kind |-> "ok", contentType |-> Undefined, data |-> [bytesAt |-> imageUrl]],
     [kind |-> "network", contentType |-> Undefined, data |-> Null],
     [kind |-> "timeout", contentType |-> Undefined, data |-> Null],
     [kind |-> "status", contentType |-> Undefined, data |-> Null]}

\* a settled promise
Fulfilled(v) == [state |-> "fulfilled", value |-> v]
Rejected == [state |-> "rejected", value |-> Null]

\* Buffer.from(data, 'binary').toString('base64')
ToBase64(data) == [base64 |-> data.bytesAt]
\* `data:${contentType};base64,${base64}`
DataUri(contentType, base64) ==
    [scheme |-> "data", contentType |-> contentType, base64 |-> base64]
IsDataUri(v) == "scheme" \in DOMAIN v /\ "base64" \in DOMAIN v /\ v.scheme = "data"

\* fetchImageAsBase64 without its catch: a failed retrieval rejects
fetchImageAsBase64_Rethrow(imageUrl, outcome) ==
    IF outcome.kind = "ok"
    THEN Fulfilled(DataUri(IF Falsy(outcome.contentType) THEN S("image/jpeg")
                           ELSE outcome.contentType,
                           ToBase64(outcome.data)))
    ELSE Rejected

\* fetchImageAsBase64(imageUrl), given how the retrieval ended
fetchImageAsBase64(imageUrl, outcome) ==
    IF outcome.kind = "ok"
    THEN Fulfilled(DataUri(IF Falsy(outcome.contentType) THEN S("image/jpeg")
                           ELSE outcome.contentType,
                           ToBase64(outcome.data)))
    ELSE Fulfilled(Null)

(* ----------------------------- clinic tables --------------------------- *)

Dates == 1..MaxDate

\* the patients the report requests are about
SeedPatients ==
    <<[id |-> 1, name |-> "Sari", patient_code |-> "P001"],
      [id |-> 2, name |-> "Tono", patient_code |-> "P002"]>>

\* body_annotation values: none, a bare upload path, two absolute image URLs
\* (upper-case extension; query string) and an absolute URL of a document
\* whose query string names an image extension
Attachments ==
    {Null,
     Url("", "", "uploads/a", ".png", ""),
     Url("https", "cdn", "a", ".PNG", ""),
     Url("https", "cdn", "b", ".jpg", "?v=1"),
     Url("https", "cdn", "doc", ".pdf", "?f=.png")}

\* a medical_history row
HistoryRow(id, patient_id, appointment_date, body_annotation) ==
    [id |-> id, patient_id |-> patient_id, staff_id |-> Null,
     appointment_date |-> appointment_date,
     pain_before |-> Null, pain_after |-> Null,
     body_annotation |-> body_annotation]

\* what a row of the tables below holds: patient 1 with any date and
\* attachment, or patient 2 with an image on day 1
HistoryChoices ==
    ({1} \X Dates \X Attachments) \cup {<<2, 1, Url("https", "cdn", "a", ".PNG", "")>>}

\* the tables of at most MaxHistories rows, in every insertion order
HistoryTables ==
    UNION {{[i \in 1..n |-> HistoryRow(i, f[i][1], f[i][2], f[i][3])] :
              f \in [1..n -> HistoryChoices]} :
           n \in 0..MaxHistories}

\* findUnique by id on a table
RowById(table, id) ==
    IF \E i \in 1..Len(table) : table[i].id = id
    THEN table[CHOOSE i \in 1..Len(table) : table[i].id = id]
    ELSE Null

\* a medical_history row with include: { patient: true, staff: true }
Include(h, ps, ss) ==
    [patient |-> RowById(ps, h.patient_id),
     staff |-> IF h.staff_id = Null THEN Null ELSE RowById(ss, h.staff_id.num)] @@ h

\* findMany without orderBy: the rows by ascending id
OrderByAppointmentDate_ById(rows) ==
    {s \in [1..Cardinality(rows) -> rows] :
       \A i, j \in 1..Cardinality(rows) : i < j => s[i].id < s[j].id}

\* orderBy: { appointment_date: 'asc' }: every order of the rows in which the
\* dates ascend; the database is free in the order of rows of equal date
OrderByAppointmentDate(rows) ==
    {s \in [1..Cardinality(rows) -> rows] :
       /\ \A i, j \in 1..Cardinality(rows) : i # j => s[i] # s[j]
       /\ \A i, j \in 1..Cardinality(rows) :
            i < j => s[i].appointment_date <= s[j].appointment_date}

\* model.findMany({ where: { patient_id }, include, orderBy }): the answers
\* the database may give
findMany(hs, ps, ss, patient_id) ==
    OrderByAppointmentDate({Include(hs[i], ps, ss) :
                              i \in {k \in 1..Len(hs) : hs[k].patient_id = patient_id}})

(* ----------------------------- the report ------------------------------ *)

\* formatMedicalHistoryForTable(history)
formatMedicalHistoryForTable(history) ==
    IF history = Null THEN Null
    ELSE [id |-> history.id,
          patient_id |-> history.patient_id,
          patient_name |-> IF history.patient = Null THEN "-" ELSE history.patient.name,
          patient_code |-> IF history.patient = Null THEN "-"
                           ELSE history.patient.patient_code,
          appointment_date |-> history.appointment_date,
          staff_id |-> history.staff_id,
          staff_name |-> IF history.staff = Null THEN "-" ELSE history.staff.name,
          pain_before |-> history.pain_before,
          pain_after |-> history.pain_after,
          pain_reduction |->
              IF /\ history.pain_before # Null /\ history.pain_before # Num(0)
                 /\ history.pain_after # Null /\ history.pain_after # Num(0)
              THEN Num(history.pain_before.num - history.pain_after.num)
              ELSE Null,
          body_annotation |-> history.body_annotation]

Pending == [state |-> "pending", value |-> Null]
NoOutcome == [kind |-> "none", contentType |-> Undefined, data |-> Null]

\* the object the per-record callback returns
Session(history, index, formatted, body_annotation_base64) ==
    [session_number |-> index + 1,
     session_date |-> history.appointment_date,
     body_annotation_url |-> formatted.body_annotation,
     body_annotation_base64 |-> body_annotation_base64] @@ formatted

\* the callback of histories.map for the record at `index`, up to its first
\* await: it has returned, or it has called fetchImageAsBase64 and waits
StartTask(history, index) ==
    LET formatted == formatMedicalHistoryForTable(history)
        task == [history |-> history, index |-> index, promise |-> Pending,
                 outcome |-> NoOutcome, fetches |-> 0, at |-> 0]
    IN IF formatted = Null THEN [task EXCEPT !.promise = Fulfilled(Null)]
       ELSE IF isValidImageUrl(formatted.body_annotation)
       THEN [task EXCEPT !.fetches = 1]
       ELSE [task EXCEPT !.promise = Fulfilled(Session(history, index, formatted, Null))]

\* a callback that returns null, no session, when its retrieval failed
ResumeTask_DropFailed(task, outcome, rank) ==
    LET formatted == formatMedicalHistoryForTable(task.history)
        fetched == fetchImageAsBase64(formatted.body_annotation, outcome)
    IN [task EXCEPT !.outcome = outcome, !.at = rank,
                    !.promise = IF fetched.value = Null THEN Fulfilled(Null)
                                ELSE Fulfilled(Session(task.history, task.index,
                                                       formatted, fetched.value))]

\* a callback that calls fetchImageAsBase64 a second time when the first
\* retrieval failed
ResumeTask_Retry(task, outcome, rank) ==
    LET formatted == formatMedicalHistoryForTable(task.history)
        fetched == fetchImageAsBase64(formatted.body_annotation, outcome)
    IN IF fetched.value = Null /\ task.fetches = 1
       THEN [task EXCEPT !.fetches = 2]
       ELSE [task EXCEPT !.outcome = outcome, !.at = rank,
                         !.promise = Fulfilled(Session(task.history, task.index,
                                                       formatted, fetched.value))]

\* the callback resumes when its retrieval has ended with `outcome`, as the
\* rank-th of the retrievals to end
ResumeTask(task, outcome, rank) ==
    LET formatted == formatMedicalHistoryForTable(task.history)
        fetched == fetchImageAsBase64(formatted.body_annotation, outcome)
    IN [task EXCEPT !.outcome = outcome, !.at = rank,
                    !.promise = IF fetched.state = "rejected" THEN Rejected
                                ELSE Fulfilled(Session(task.history, task.index,
                                                       formatted, fetched.value))]

Settled(tasks) == {i \in 1..Len(tasks) : tasks[i].promise.state # "pending"}

\* a Promise.all that collects the values in the order the promises settle
PromiseAll_SettleOrder(tasks) ==
    IF \E i \in 1..Len(tasks) : tasks[i].promise.state = "rejected" THEN Rejected
    ELSE IF Settled(tasks) # 1..Len(tasks) THEN Pending
    ELSE LET before(i, j) == \/ tasks[i].at < tasks[j].at
                             \/ tasks[i].at = tasks[j].at /\ i < j
             pos(i) == 1 + Cardinality({j \in 1..Len(tasks) : before(j, i)})
         IN Fulfilled([k \in 1..Len(tasks) |->
                         tasks[CHOOSE i \in 1..Len(tasks) : pos(i) = k].promise.value])

\* a join that returns as soon as one of the promises has settled, with null
\* for the others
PromiseAll_FirstSettled(tasks) ==
    IF \E i \in 1..Len(tasks) : tasks[i].promise.state = "rejected" THEN Rejected
    ELSE IF Settled(tasks) = {} /\ Len(tasks) > 0 THEN Pending
    ELSE Fulfilled([i \in 1..Len(tasks) |->
                      IF i \in Settled(tasks) THEN tasks[i].promise.value ELSE Null])

\* Promise.all over the tasks' promises: rejected as soon as one is, fulfilled
\* with the values in the order of the array once all are
PromiseAll(tasks) ==
    IF \E i \in 1..Len(tasks) : tasks[i].promise.state = "rejected" THEN Rejected
    ELSE IF Settled(tasks) # 1..Len(tasks) THEN Pending
    ELSE Fulfilled([i \in 1..Len(tasks) |-> tasks[i].promise.value])

IsSession(session) == session # Null

\* what the DAO returns once Promise.all has fulfilled
composeReport(rows, sessionsWithBase64Images) ==
    LET validSessions == SelectSeq(sessionsWithBase64Images, IsSession) IN
    [patient |-> IF Len(rows) > 0 THEN rows[1].patient ELSE Null,
     total_sessions |-> Len(validSessions),
     sessions |-> validSessions]

\* a controller that answers 200 whatever the report holds
respondReport_Always200(rep) == [status |-> 200, data |-> rep, error_message |-> ""]

\* the controller's answer to the DAO's report
respondReport(rep) ==
    IF rep.patient = Null
    THEN [status |-> 404, data |-> Null,
          error_message |-> "No medical history found for this patient"]
    ELSE [status |-> 200, data |-> rep, error_message |-> ""]

\* req.params.patientId: a run of digits followed by other text
Param(digits, rest) == [digits |-> digits, rest |-> rest]
PatientIdParams == {Param(<<1>>, ""), Param(<<2>>, ""), Param(<<3>>, ""), Param(<<>>, "abc")}
NaN == [nan |-> TRUE]
\* parseInt(text): the value of the leading digits, NaN without one
parseInt(text) ==
    IF text.digits = <<>> THEN NaN
    ELSE IF Len(text.digits) = 1 THEN Num(text.digits[1])
    ELSE Num(10 * text.digits[1] + text.digits[2])

(* --------------------------- report actions ---------------------------- *)

\* the answer of the controller's catch block
ReportFailed == [status |-> 500, data |-> Null, error_message |-> "error"]

\* getPatientProgressReport (controller) up to its await of the DAO
ProgressReportStart ==
    /\ report.pc \in {"idle", "done"}
    /\ \E param \in PatientIdParams :
         LET patientId == parseInt(param)
             r == [NoReport EXCEPT !.param = param, !.patientId = patientId] IN
         report' = IF patientId = NaN
                   THEN [r EXCEPT !.pc = "done",
                                  !.res = [status |-> 400, data |-> Null,
                                           error_message |-> "Invalid patient ID"]]
                   ELSE [r EXCEPT !.pc = "query"]
    /\ UNCHANGED <<authVars, patients, staffs, histories, visitors, calls>>

\* the DAO resumes after await model.findMany: histories.map starts one task
\* per record, each running to its first await; a failed query is thrown to
\* the controller's catch
ProgressReportQuery ==
    /\ report.pc = "query"
    /\ \/ report' = [report EXCEPT !.pc = "done", !.db = "threw", !.res = ReportFailed]
       \/ \E rows \in findMany(histories, patients, staffs, report.patientId.num) :
            report' = [report EXCEPT
                         !.pc = "join",
                         !.db = "answered",
                         !.rows = rows,
                         !.tasks = [i \in 1..Len(rows) |-> StartTask(rows[i], i - 1)]]
    /\ UNCHANGED <<authVars, patients, staffs, histories, visitors, calls>>

\* the retrieval of task i ends and its callback runs to its return
ImageFetched(i) ==
    /\ report.pc = "join"
    /\ i \in 1..Len(report.tasks)
    /\ report.tasks[i].promise.state = "pending"
    /\ \E outcome \in Outcomes(report.tasks[i].history.body_annotation) :
         report' = [report EXCEPT
                      !.tasks[i] = ResumeTask(@, outcome,
                                              1 + Cardinality({j \in 1..Len(report.tasks) :
                                                                 report.tasks[j].at > 0}))]
    /\ UNCHANGED <<authVars, patients, staffs, histories, visitors, calls>>

\* await Promise.all(...) returns or throws; the DAO composes the report and
\* the controller answers
ProgressReportJoin ==
    /\ report.pc = "join"
    /\ LET all == PromiseAll(report.tasks) IN
       /\ all.state # "pending"
       /\ report' = [report EXCEPT
                       !.pc = "done",
                       !.res = IF all.state = "rejected" THEN ReportFailed
                               ELSE respondReport(composeReport(report.rows, all.value))]
    /\ UNCHANGED <<authVars, patients, staffs, histories, visitors, calls>>

\* no account request is in flight and the users table is empty
NoAccounts ==
    /\ env = [TOKEN_SECRET |-> S("k1"), DEV_SECRET |-> S("abcde")]
    /\ users = <<>>
    /\ now = 0
    /\ reqs = [c \in Conns |-> Idle]

InitReport ==
    /\ NoAccounts
    /\ patients = SeedPatients
    /\ staffs = <<>>
    /\ histories \in HistoryTables
    /\ report = NoReport
    /\ visitors = <<>>
    /\ calls = [c \in Conns |-> NoCall]

NextReport ==
    \/ ProgressReportStart
    \/ ProgressReportQuery
    \/ \E i \in 1..MaxHistories : ImageFetched(i)
    \/ ProgressReportJoin

SpecReport == InitReport /\ [][NextReport]_vars

(* ---------------------- claims on the progress report ------------------ *)

\* the tasks of the report in flight whose retrieval has ended
Fetched == {i \in 1..Len(report.tasks) : report.tasks[i].outcome # NoOutcome}
\* the report request has been answered with the composed report
Reported == report.pc = "done" /\ report.res.status = 200

\* C12: fetchImageAsBase64 never raises to its caller: whatever the URL and
\* however the retrieval fails (network error, timeout, non-success status)
\* the awaiting callback gets null and continues, and it gets a non-null
\* value, a data URI, only when the retrieval succeeded.
C12_FetchNeverRaises ==
    \A i \in Fetched :
      LET task == report.tasks[i] IN
      /\ task.promise.state = "fulfilled"
      /\ task.outcome.kind \in {"network", "timeout", "status"} =>
           task.promise.value.body_annotation_base64 = Null
      /\ task.promise.value.body_annotation_base64 # Null =>
           /\ task.outcome.kind = "ok"
           /\ IsDataUri(task.promise.value.body_annotation_base64)

\* C12 happens: of two retrievals of one report, one has timed out and one
\* has answered with a non-success status, and the report has been returned.
C12_Witness ==
    /\ Reported
    /\ \E i, j \in Fetched :
         /\ report.tasks[i].outcome.kind = "timeout"
         /\ report.tasks[j].outcome.kind = "status"
         /\ report.tasks[i].promise = Fulfilled(report.res.data.sessions[i])
         /\ report.res.data.sessions[i].body_annotation_base64 = Null

\* the rows of the table that belong to the patient of the request
RecordsOfPatient ==
    {i \in 1..Len(histories) : histories[i].patient_id = report.patientId.num}

\* C13: for every patient and every insertion order of its history records,
\* the returned sessions are the patient's records, each once, sorted by
\* appointment date ascending, and the session at 1-based position k has
\* session_number = k.
C13_SessionsSortedAndNumbered ==
    Reported =>
      LET sessions == report.res.data.sessions IN
      /\ Len(sessions) = Cardinality(RecordsOfPatient)
      /\ {sessions[k].id : k \in 1..Len(sessions)}
           = {histories[i].id : i \in RecordsOfPatient}
      /\ \A k \in 1..Len(sessions) :
           /\ sessions[k].session_number = k
           /\ sessions[k].session_date = RowById(histories, sessions[k].id).appointment_date
           /\ sessions[k].appointment_date = sessions[k].session_date
      /\ \A j, k \in 1..Len(sessions) :
           j < k => sessions[j].session_date <= sessions[k].session_date

\* C13 happens: the record inserted last has the earliest date and is
\* returned as session 1.
C13_Witness ==
    /\ Reported
    /\ Len(report.res.data.sessions) >= 2
    /\ report.res.data.sessions[1].id > report.res.data.sessions[2].id
    /\ report.res.data.sessions[1].session_date < report.res.data.sessions[2].session_date
    /\ report.res.data.sessions[1].session_number = 1

\* C14: when the query finds no history record of the requested patient,
\* whether or not that patient exists, the progress-report request is answered
\* 404 without a report; a report that is returned never has an empty session
\* list.
C14_NoRecordsNotFound ==
    /\ (report.pc = "done" /\ report.db = "answered" /\ RecordsOfPatient = {}) =>
         /\ report.res.status = 404
         /\ report.res.data = Null
    /\ Reported =>
         /\ Len(report.res.data.sessions) >= 1
         /\ report.res.data.total_sessions >= 1
         /\ report.res.data.patient # Null

\* C14 happens: the table holds records, none of them of the existing patient
\* the request names, and the request has been answered 404.
C14_Witness ==
    /\ report.pc = "done" /\ report.db = "answered"
    /\ RowById(patients, report.patientId.num) # Null
    /\ RecordsOfPatient = {}
    /\ histories # <<>>
    /\ report.res.status = 404

\* the attachment is the text of an absolute URL whose path ends, in any
\* letter case, in one of the image extensions
AbsoluteImageUrl(attachment) ==
    /\ attachment # Null
    /\ attachment.scheme # ""
    /\ ToLowerCase(attachment.suffix) \in {validExtensions[i] : i \in DOMAIN validExtensions}

\* C15: in every session of a returned report, body_annotation_base64 is
\* non-null exactly when the record's attachment passed isValidImageUrl (it is
\* an absolute URL with an image extension) and its retrieval succeeded, and
\* body_annotation_url is the record's attachment in both cases.
C15_Base64OnlyForFetchedImages ==
    Reported =>
      \A k \in 1..Len(report.res.data.sessions) :
        LET session == report.res.data.sessions[k]
            record == RowById(histories, session.id)
            task == report.tasks[k] IN
        /\ session.body_annotation_url = record.body_annotation
        /\ session.body_annotation = record.body_annotation
        /\ task.history.id = record.id
        /\ isValidImageUrl(record.body_annotation) <=> AbsoluteImageUrl(record.body_annotation)
        /\ session.body_annotation_base64 # Null
             <=> (AbsoluteImageUrl(record.body_annotation) /\ task.outcome.kind = "ok")
        /\ session.body_annotation_base64 # Null =>
             IsDataUri(session.body_annotation_base64)

\* C15 happens: one report holds a session with an embedded image and a
\* session whose attachment, a bare upload path, was not fetched.
C15_Witness ==
    /\ Reported
    /\ \E j, k \in 1..Len(report.res.data.sessions) :
         LET embedded == report.res.data.sessions[j]
             plain == report.res.data.sessions[k] IN
         /\ IsDataUri(embedded.body_annotation_base64)
         /\ embedded.body_annotation_url = Url("https", "cdn", "b", ".jpg", "?v=1")
         /\ plain.body_annotation_url = Url("", "", "uploads/a", ".png", "")
         /\ plain.body_annotation_base64 = Null
         /\ report.tasks[k].fetches = 0

\* C16: whatever the order in which the concurrent retrievals of one report
\* end, the returned sessions are in the order of the records the query
\* answered (chronological), and the image embedded in a session is the one
\* retrieved from that record's own attachment.
C16_OrderAndPairingKept ==
    Reported =>
      /\ Len(report.res.data.sessions) = Len(report.rows)
      /\ \A k \in 1..Len(report.rows) :
           LET session == report.res.data.sessions[k]
               record == report.rows[k]
               task == report.tasks[k] IN
           /\ session.id = record.id
           /\ session.session_date = record.appointment_date
           /\ task.history = record
           /\ task.outcome.kind = "ok" =>
                /\ IsDataUri(session.body_annotation_base64)
                /\ session.body_annotation_base64.base64
                     = ToBase64([bytesAt |-> record.body_annotation])
                /\ task.outcome.data = [bytesAt |-> record.body_annotation]

\* C16 happens: the retrieval for the second record ended before the one for
\* the first, the two attachments differ, and both images are in the report.
C16_Witness ==
    /\ Reported
    /\ Len(report.tasks) >= 2
    /\ report.tasks[1].at = 2 /\ report.tasks[2].at = 1
    /\ report.rows[1].body_annotation # report.rows[2].body_annotation
    /\ report.tasks[1].outcome.kind = "ok" /\ report.tasks[2].outcome.kind = "ok"
    /\ report.res.data.sessions[1].body_annotation_base64.base64
         = ToBase64([bytesAt |-> report.rows[1].body_annotation])
    /\ report.res.data.sessions[2].body_annotation_base64.base64
         = ToBase64([bytesAt |-> report.rows[2].body_annotation])

\* the tasks whose retrieval failed or timed out
FailedFetches ==
    {i \in Fetched : report.tasks[i].outcome.kind \in {"network", "timeout", "status"}}

\* C17: for a patient whose N >= 1 records all carry valid image references,
\* whichever of the retrievals fail or time out, the request is answered with
\* a report of all N sessions with total_sessions = N, and the sessions with a
\* null body_annotation_base64 are exactly those whose retrieval failed.
C17_FailedFetchesKeepSessions ==
    (/\ report.pc = "done" /\ report.db = "answered"
     /\ RecordsOfPatient # {}
     /\ \A i \in RecordsOfPatient : AbsoluteImageUrl(histories[i].body_annotation)) =>
      LET N == Cardinality(RecordsOfPatient) IN
      /\ report.res.status = 200
      /\ Len(report.res.data.sessions) = N
      /\ report.res.data.total_sessions = N
      /\ Fetched = 1..N
      /\ {k \in 1..N : report.res.data.sessions[k].body_annotation_base64 = Null}
           = FailedFetches
      /\ \A k \in 1..N : report.res.data.sessions[k].id = report.tasks[k].history.id

\* C17 happens: every record of the patient has an image, one retrieval
\* failed and another succeeded, and the report holds both sessions.
C17_Witness ==
    /\ Reported
    /\ Cardinality(RecordsOfPatient) >= 2
    /\ \A i \in RecordsOfPatient : AbsoluteImageUrl(histories[i].body_annotation)
    /\ report.res.data.total_sessions = Cardinality(RecordsOfPatient)
    /\ Cardinality(FailedFetches) = 1
    /\ \E k \in FailedFetches : report.res.data.sessions[k].body_annotation_base64 = Null
    /\ \E k \in Fetched \ FailedFetches :
         IsDataUri(report.res.data.sessions[k].body_annotation_base64)

(* ============================== visitors =============================== *)

\* rows the visitors table can be given
MaxVisitors == 2

\* the slot of a deleted row: its id is not given again
Gone == [id |-> 0]
\* a Date, in days of the clock
Date(t) == [date |-> t]

\* the staff the visitor requests name: one active, one inactive
SeedStaffs ==
    <<[id |-> 1, name |-> "Dewi", active |-> TRUE],
      [id |-> 2, name |-> "Eko", active |-> FALSE]>>

\* VisitorDAO.validateStaff(staffId)
validateStaff(ss, staffId) ==
    \E i \in 1..Len(ss) : ss[i].id = staffId.num /\ ss[i].active

\* phoneRegex.test(text) with phoneRegex = /^[0-9+()-]+$/, on the texts in use
phoneRegexTest(text) == text \in {S("0812"), S("+62(21)-555")}

\* req.body of the visitor routes; a property left out is Undefined
VisitorBody(visitor_profile, visitor_profile_other, phone_number, staff_id, checked_out_at) ==
    [visitor_profile |-> visitor_profile,
     visitor_profile_other |-> visitor_profile_other,
     phone_number |-> phone_number,
     staff_id |-> staff_id,
     checked_out_at |-> checked_out_at]

CreateVisitorBodies ==
    {VisitorBody(S("Guest"), Undefined, S("0812"), Num(1), Undefined),
     VisitorBody(S("Guest"), Undefined, S("0812"), Num(1), Date(0)),
     VisitorBody(S("Other"), Undefined, S("0812"), Num(1), Undefined),
     VisitorBody(S("Guest"), S("vendor"), S("0812"), Num(1), Undefined),
     VisitorBody(S("Guest"), Undefined, S("08ab"), Num(1), Undefined),
     VisitorBody(S("Guest"), Undefined, S("0812"), Num(2), Undefined)}

UpdateVisitorBodies ==
    {VisitorBody(Undefined, Undefined, S("+62(21)-555"), Undefined, Undefined),
     VisitorBody(Undefined, Undefined, Undefined, Undefined, Null),
     VisitorBody(Undefined, Undefined, Undefined, Undefined, Date(0)),
     VisitorBody(S("Other"), Undefined, Undefined, Undefined, Undefined),
     VisitorBody(Undefined, Undefined, S("08ab"), Undefined, Undefined),
     VisitorBody(Undefined, Undefined, Undefined, Num(2), Undefined),
     VisitorBody(Undefined, Undefined, Undefined, Num(1), Undefined)}

\* the request is answered: res.send(...) or next(error)
Answer(call, res) == [call EXCEPT !.pc = "done", !.res = res]

\* VisitorDAO.formatCreate(data) and model.create: the inserted table
createVisitorRow(vs, data) ==
    Append(vs, [id |-> Len(vs) + 1,
                staff_id |-> data.staff_id,
                checked_out_at |-> IF data.checked_out_at \in {Undefined, Null}
                                   THEN Null ELSE data.checked_out_at])

\* VisitorDAO.update(id, data): ...data is written as it came
updateVisitorRow(vs, id, data) ==
    [vs EXCEPT ![id].checked_out_at =
                 IF data.checked_out_at = Undefined THEN @ ELSE data.checked_out_at]

\* VisitorDAO.checkOut(id) at time t
checkOut(vs, id, t) == [vs EXCEPT ![id].checked_out_at = Date(t)]

\* VisitorDAO.deleteVisitor(id)
deleteVisitorRow(vs, id) == [vs EXCEPT ![id] = Gone]

\* the requests a client may send: c1 any visitor request, c2, beside it,
\* check-outs
VisitorRequests(c) ==
    LET ids == 1..MaxVisitors
        to(op, id, body) == [NoCall EXCEPT !.op = op, !.id = id, !.body = body]
    IN {to("checkOutVisitor", id, <<>>) : id \in ids}
         \cup IF c # "c1" THEN {}
              ELSE {to("createVisitor", 0, body) : body \in CreateVisitorBodies}
                     \cup {to("updateVisitor", id, body) :
                             id \in ids, body \in UpdateVisitorBodies}
                     \cup {to("deleteVisitor", id, <<>>) : id \in ids}

(* --------------------------- visitor actions --------------------------- *)

\* the checks createVisitor and updateVisitor make on the body before they
\* validate the staff: the error passed to next, or NextOk
visitorBodyChecks(op, body) ==
    IF body.visitor_profile = S("Other") /\ Falsy(body.visitor_profile_other)
    THEN BadRequestError("visitor_profile_other is required when profile is Other", "")
    ELSE IF /\ op = "createVisitor"
            /\ body.visitor_profile # S("Other") /\ ~Falsy(body.visitor_profile_other)
    THEN BadRequestError("visitor_profile_other should only be filled when profile is Other", "")
    ELSE IF /\ op = "createVisitor" \/ ~Falsy(body.phone_number)
            /\ ~phoneRegexTest(body.phone_number)
    THEN BadRequestError("Invalid phone number format", "")
    ELSE NextOk

\* a visitor request arrives on connection c and its handler runs to its
\* first await
VisitorArrive(c) ==
    /\ calls[c].pc \in {"idle", "done"}
    /\ \E call \in VisitorRequests(c) :
         /\ call.op = "createVisitor" => Len(visitors) < MaxVisitors
         /\ calls' = [calls EXCEPT ![c] =
              IF call.op = "createVisitor"
              THEN IF visitorBodyChecks(call.op, call.body) # NextOk
                   THEN Answer(call, visitorBodyChecks(call.op, call.body))
                   ELSE [call EXCEPT !.pc = "staff"]
              ELSE [call EXCEPT !.pc = "get"]]
    /\ UNCHANGED <<authVars, patients, staffs, histories, report, visitors>>

\* updateVisitor, checkOutVisitor and deleteVisitor resume after
\* await VisitorDAO.getById(id)
VisitorGet(c) ==
    /\ calls[c].pc = "get"
    /\ LET call == calls[c]
           visitor == RowById(visitors, call.id) IN
       calls' = [calls EXCEPT ![c] =
         IF visitor = Null THEN Answer(call, EntityNotFoundError("Visitor"))
         ELSE CASE call.op = "updateVisitor" ->
                     IF visitorBodyChecks(call.op, call.body) # NextOk
                     THEN Answer(call, visitorBodyChecks(call.op, call.body))
                     ELSE IF call.body.staff_id # Undefined
                     THEN [call EXCEPT !.pc = "staff"]
                     ELSE [call EXCEPT !.pc = "write"]
                [] call.op = "checkOutVisitor" ->
                     IF visitor.checked_out_at # Null
                     THEN Answer(call, BadRequestError("Visitor already checked out", ""))
                     ELSE [call EXCEPT !.pc = "write"]
                [] OTHER -> [call EXCEPT !.pc = "write"]]
    /\ UNCHANGED <<authVars, patients, staffs, histories, report, visitors>>

\* createVisitor and updateVisitor resume after await VisitorDAO.validateStaff
VisitorStaff(c) ==
    /\ calls[c].pc = "staff"
    /\ calls[c].op \in {"createVisitor", "updateVisitor"}
    /\ calls' = [calls EXCEPT ![c] =
         IF validateStaff(staffs, calls[c].body.staff_id)
         THEN [calls[c] EXCEPT !.pc = "write"]
         ELSE Answer(calls[c], BadRequestError("Staff not found or inactive", ""))]
    /\ UNCHANGED <<authVars, patients, staffs, histories, report, visitors>>

\* the handler's write and its answer: VisitorDAO.create, update, checkOut or
\* deleteVisitor; prisma throws when the row is gone, and may refuse update
\* data that names both staff_id and the staff relation
VisitorWrite(c) ==
    /\ calls[c].pc = "write"
    /\ calls[c].op \in {"createVisitor", "updateVisitor", "checkOutVisitor", "deleteVisitor"}
    /\ LET call == calls[c] IN
       IF call.op = "createVisitor"
       THEN /\ visitors' = createVisitorRow(visitors, call.body)
            /\ calls' = [calls EXCEPT ![c] = Answer(call, [sent |-> Len(visitors) + 1])]
       ELSE IF RowById(visitors, call.id) = Null
       THEN /\ visitors' = visitors
            /\ calls' = [calls EXCEPT ![c] = Answer(call, InternalServerError)]
       ELSE \/ /\ visitors' =
                    CASE call.op = "updateVisitor" ->
                           updateVisitorRow(visitors, call.id, call.body)
                      [] call.op = "checkOutVisitor" -> checkOut(visitors, call.id, now)
                      [] OTHER -> deleteVisitorRow(visitors, call.id)
               /\ calls' = [calls EXCEPT ![c] = Answer(call, [sent |-> call.id])]
            \/ /\ call.op = "updateVisitor" /\ call.body.staff_id # Undefined
               /\ visitors' = visitors
               /\ calls' = [calls EXCEPT ![c] = Answer(call, InternalServerError)]
    /\ UNCHANGED <<authVars, patients, staffs, histories, report>>

InitVisitor ==
    /\ NoAccounts
    /\ patients = <<>>
    /\ staffs = SeedStaffs
    /\ histories = <<>>
    /\ report = NoReport
    /\ visitors = <<>>
    /\ calls = [c \in Conns |-> NoCall]

NextVisitor ==
    \/ \E c \in Conns : VisitorArrive(c)
    \/ \E c \in Conns : VisitorGet(c)
    \/ \E c \in Conns : VisitorStaff(c)
    \/ \E c \in Conns : VisitorWrite(c)
    \/ Tick

SpecVisitor == InitVisitor /\ [][NextVisitor]_vars

(* ------------------------- claims on the visitors ---------------------- *)

\* C18: for every visitor and every sequence or interleaving of requests,
\* checked_out_at changes from null to a timestamp at most once and never
\* changes afterwards: neither a checkOutVisitor request on a visitor already
\* checked out, nor updateVisitor, nor a concurrent checkOutVisitor resets or
\* overwrites it.
C18_CheckOutOnceForAll ==
    [][\A id \in 1..Len(visitors) :
         (visitors[id] # Gone /\ visitors[id].checked_out_at # Null
          /\ visitors'[id] # Gone) =>
           visitors'[id].checked_out_at = visitors[id].checked_out_at]_vars

(* ===================== patients and medical histories ================== *)

\* rows the patient table can be given
MaxPatients == 1

\* rows the medical_history table can be given by the requests on records
MaxRecords == 1

\* lowest and highest pain value createMedicalHistory accepts
MinPain == 1
MaxPain == 10

\* `${prefix}${n}`: "PAT-" of the generated codes, "NEW-" of a code a client
\* writes
Code(prefix, n) == Str(<<[w |-> prefix, n |-> n]>>)

\* text.trim() of a string: a string of blanks is trimmed to ''
trim(text) ==
    IF \A i \in 1..Len(text.val) : text.val[i] \in {Word(""), Word(" ")}
    THEN S("") ELSE text

\* the last row of a table that is still there: findFirst({orderBy: {id: 'desc'}})
LastRow(table) ==
    IF \A i \in 1..Len(table) : table[i] = Gone THEN Null
    ELSE table[CHOOSE i \in 1..Len(table) :
                 table[i] # Gone /\ \A j \in (i + 1)..Len(table) : table[j] = Gone]

\* generateNextPatientCode(), given the row its findFirst returned
generateNextPatientCode(lastPatient) ==
    Code("PAT-", (IF lastPatient = Null THEN 0 ELSE lastPatient.id) + 1)

\* another row than `id` holds patient_code: the rows are found by
\* findUnique({where: {patient_code}}), so the column carries a unique index
CodeTaken(ps, id, patient_code) ==
    \E i \in 1..Len(ps) :
       ps[i] # Gone /\ ps[i].id # id /\ ps[i].patient_code = patient_code

\* PatientDAO.create: model.create with the code it was given or generated;
\* it throws when another row holds the code
createPatientRow(ps, name, patient_code) ==
    IF CodeTaken(ps, 0, patient_code) THEN [ok |-> FALSE, patients |-> ps]
    ELSE [ok |-> TRUE,
          patients |-> Append(ps, [id |-> Len(ps) + 1, name |-> name,
                                   patient_code |-> patient_code])]

\* PatientDAO.update(id, data): name when given, patient_code when given and
\* not blank
updatePatientRow(ps, id, data) ==
    [ps EXCEPT ![id].name = IF data.name # Undefined THEN data.name.val[1].w ELSE @,
               ![id].patient_code =
                 IF data.patient_code # Undefined /\ trim(data.patient_code) # S("")
                 THEN data.patient_code ELSE @]

\* what the database does with the medical_history rows of a deleted patient;
\* the relation is required, so its rows are either kept from losing their
\* patient (the delete is refused) or deleted with it
ReferentialActions == {"Restrict", "Cascade"}

\* a delete that leaves the patient's medical_history rows behind
deletePatientRow_NoAction(ps, hs, id, onDelete) ==
    [ok |-> TRUE, patients |-> [ps EXCEPT ![id] = Gone], histories |-> hs]

\* PatientDAO.deletePatient(id): model.delete under the relation's action
deletePatientRow(ps, hs, id, onDelete) ==
    LET theirs == {i \in 1..Len(hs) : hs[i] # Gone /\ hs[i].patient_id = id} IN
    IF theirs # {} /\ onDelete = "Restrict"
    THEN [ok |-> FALSE, patients |-> ps, histories |-> hs]
    ELSE [ok |-> TRUE,
          patients |-> [ps EXCEPT ![id] = Gone],
          histories |-> [i \in 1..Len(hs) |-> IF i \in theirs THEN Gone ELSE hs[i]]]

\* StaffDAO.softDelete(id)
softDeleteStaff(ss, id) == [ss EXCEPT ![id].active = FALSE]

\* StaffDAO.update(id, data): ...data is written as it came
updateStaffRow(ss, id, data) ==
    [ss EXCEPT ![id].active = IF "active" \in DOMAIN data THEN data.active.bool ELSE @]

\* MedicalHistoryDAO.validatePatientExists / validateStaffExists
validateExists(table, id) == id # Undefined /\ id # Null /\ RowById(table, id.num) # Null

\* req.body of the medical history routes; a property left out is Undefined
HistoryBody(patient_id, staff_id, appointment_date, pain_before, pain_after) ==
    [patient_id |-> patient_id, staff_id |-> staff_id,
     appointment_date |-> appointment_date,
     pain_before |-> pain_before, pain_after |-> pain_after]

\* n + 1/2, a number of a JSON body that is not an integer
Frac(n) == [num |-> n, frac |-> TRUE]

\* the pain columns hold integers: the client refuses to write any other
\* number into them
IntColumn(v) == v \in {Undefined, Null} \/ DOMAIN v = {"num"}

\* MedicalHistoryDAO.formatCreate(data) and create: the inserted table, or a
\* throw when a connect finds no row or a value does not fit its column
createHistoryRow(hs, ps, ss, data) ==
    IF \/ RowById(ps, data.patient_id.num) = Null
       \/ data.staff_id # Undefined /\ RowById(ss, data.staff_id.num) = Null
       \/ ~IntColumn(data.pain_before) \/ ~IntColumn(data.pain_after)
    THEN [ok |-> FALSE, histories |-> hs]
    ELSE [ok |-> TRUE,
          histories |->
            Append(hs, [id |-> Len(hs) + 1,
                        patient_id |-> data.patient_id.num,
                        staff_id |-> IF data.staff_id = Undefined THEN Null
                                     ELSE data.staff_id,
                        appointment_date |-> data.appointment_date.date,
                        pain_before |-> IF data.pain_before = Undefined THEN Null
                                        ELSE data.pain_before,
                        pain_after |-> IF data.pain_after = Undefined THEN Null
                                       ELSE data.pain_after,
                        body_annotation |-> Null])]

\* MedicalHistoryDAO.update(id, data): patient_id is not written; staff is
\* connected, or disconnected when staff_id is null
updateHistoryRow(hs, ss, id, data) ==
    IF \/ data.staff_id \notin {Undefined, Null} /\ RowById(ss, data.staff_id.num) = Null
       \/ ~IntColumn(data.pain_before) \/ ~IntColumn(data.pain_after)
    THEN [ok |-> FALSE, histories |-> hs]
    ELSE [ok |-> TRUE,
          histories |->
            [hs EXCEPT
               ![id].staff_id = IF data.staff_id = Undefined THEN @ ELSE data.staff_id,
               ![id].appointment_date =
                 IF data.appointment_date = Undefined THEN @
                 ELSE data.appointment_date.date,
               ![id].pain_before = IF data.pain_before = Undefined THEN @
                                   ELSE data.pain_before,
               ![id].pain_after = IF data.pain_after = Undefined THEN @
                                  ELSE data.pain_after]]


\* hidash.checkPropertyV2(body, name, required): an error with a message when
\* a required property is missing from the body, an object without one
\* otherwise
checkPropertyV2(body, required) ==
    [kind |-> "MissingPropertyError",
     message |-> IF \E property \in required : body[property] = Undefined
                 THEN S("missing") ELSE Undefined]

\* MedicalHistoryDAO.getRequired()
MedicalHistoryRequired == {"patient_id", "appointment_date"}

\* new BadParamIdError()
BadParamIdError == [kind |-> "BadParamIdError"]

\* req.body of the patient routes: the properties the model follows
PatientBody(name, patient_code) == [name |-> name, patient_code |-> patient_code]

\* the requests a client may send: c1 the creates and updates of patients and
\* histories, c2, beside it, the deletes; id 0 stands for the path parameter
\* "abc".  A patient body carries name and gender and none of email, phone,
\* date_of_birth, height and weight, so the handlers' checks of those are
\* passed over
RecordsRequests(c) ==
    LET to(op, id, body) ==
            [NoCall EXCEPT !.op = op, !.body = body,
                           !.id = IF id = 0 THEN Param(<<>>, "abc") ELSE Param(<<id>>, "")]
        nobody == Num(MaxPatients + 1)
        noStaff == Num(Len(SeedStaffs) + 1)
    IN IF c # "c1"
       THEN {to("deletePatient", id, <<>>) : id \in 0..MaxPatients}
              \cup {to("deleteStaff", 1, <<>>)}
       ELSE {to("createPatient", 0, PatientBody(S("Sari"), code)) :
               code \in {Undefined, Code("NEW-", 0)}}
         \cup UNION {{to("updatePatient", id, body) : body \in
                        {PatientBody(S("Sari"), Undefined),
                         PatientBody(Undefined, S(" ")),
                         PatientBody(Undefined, Code("NEW-", id))}} :
                      id \in 1..MaxPatients}
         \cup {to("createMedicalHistory", 0, body) : body \in
                 {HistoryBody(Num(1), Undefined, Date(0), Undefined, Undefined),
                  HistoryBody(Num(1), Num(1), Date(0), Num(MinPain), Num(MaxPain)),
                  HistoryBody(Num(1), noStaff, Date(0), Undefined, Undefined),
                  HistoryBody(nobody, Undefined, Date(0), Undefined, Undefined),
                  HistoryBody(Num(1), Undefined, Date(0), Num(MinPain - 1), Num(MaxPain + 1)),
                  HistoryBody(Num(1), Undefined, Date(0), Frac(MinPain), Undefined),
                  HistoryBody(Num(1), Undefined, Undefined, Undefined, Undefined),
                  HistoryBody(Num(1), Undefined, Date(-2), Undefined, Undefined)}}
         \cup {to("updateMedicalHistory", id, body) :
                 id \in 0..MaxRecords,
                 body \in
                 {HistoryBody(Undefined, Null, Undefined, Undefined, Undefined),
                  HistoryBody(Undefined, Num(2), Undefined, Undefined, Undefined),
                  HistoryBody(Undefined, noStaff, Undefined, Undefined, Undefined),
                  HistoryBody(nobody, Undefined, Undefined, Undefined, Undefined),
                  HistoryBody(Undefined, Undefined, Undefined, Num(MaxPain), Frac(MaxPain - 1)),
                  HistoryBody(Undefined, Undefined, Undefined, Null, Undefined),
                  HistoryBody(Num(1), Undefined, Undefined, Undefined, Num(MaxPain + 1))}}

(* ---------------- patient, history and staff actions ------------------- *)

\* pain < MinPain || pain > MaxPain, for a pain that is not undefined
OutOfRange(pain) ==
    \/ pain = Null
    \/ pain # Null /\ (pain.num < MinPain \/ pain.num > MaxPain
                        \/ (pain.num = MaxPain /\ "frac" \in DOMAIN pain))

\* checks that pass over pain_after
historyBodyChecks_NoPainAfter(call, t) ==
    LET body == call.body IN
    IF body.pain_before # Undefined /\ OutOfRange(body.pain_before)
    THEN Answer(call, BadRequestError("Pain before must be between 1 and 10", ""))
    ELSE IF /\ call.op = "createMedicalHistory"
            /\ body.appointment_date.date < t - 1
    THEN Answer(call, BadRequestError("Appointment date cannot be more than 1 day in the past", ""))
    ELSE [call EXCEPT !.pc = "write"]

\* what createMedicalHistory and updateMedicalHistory do once the patient and
\* the staff are validated: the pain and date checks, then the write
historyBodyChecks(call, t) ==
    LET body == call.body IN
    IF body.pain_before # Undefined /\ OutOfRange(body.pain_before)
    THEN Answer(call, BadRequestError("Pain before must be between 1 and 10", ""))
    ELSE IF body.pain_after # Undefined /\ OutOfRange(body.pain_after)
    THEN Answer(call, BadRequestError("Pain after must be between 1 and 10", ""))
    ELSE IF /\ call.op = "createMedicalHistory"
            /\ body.appointment_date.date < t - 1
    THEN Answer(call, BadRequestError("Appointment date cannot be more than 1 day in the past", ""))
    ELSE [call EXCEPT !.pc = "write"]

\* the same, from the staff validation on
historyStaffChecks(call, t) ==
    IF call.body.staff_id \notin {Undefined, Null}
    THEN [call EXCEPT !.pc = "staff"]
    ELSE historyBodyChecks(call, t)

\* a request on patients, histories or staff arrives on connection c and
\* its handler runs to its first await
RecordsArrive(c) ==
    /\ calls[c].pc \in {"idle", "done"}
    /\ \E call \in RecordsRequests(c) :
         /\ call.op = "createPatient" => Len(patients) < MaxPatients
         /\ call.op = "createMedicalHistory" => Len(histories) < MaxRecords
         /\ calls' = [calls EXCEPT ![c] =
              CASE call.op = "createPatient" ->
                     IF ~Falsy(checkPropertyV2(call.body, {"name"}).message)
                     THEN Answer(call, checkPropertyV2(call.body, {"name"}))
                     ELSE IF Falsy(call.body.patient_code)
                               \/ trim(call.body.patient_code) = S("")
                     THEN [call EXCEPT !.pc = "code"]
                     ELSE [call EXCEPT !.pc = "write"]
                [] call.op = "createMedicalHistory" ->
                     IF ~Falsy(checkPropertyV2(call.body, MedicalHistoryRequired).message)
                     THEN Answer(call, checkPropertyV2(call.body, MedicalHistoryRequired))
                     ELSE [call EXCEPT !.pc = "patient"]
                [] OTHER ->
                     IF parseInt(call.id) = NaN THEN Answer(call, BadParamIdError)
                     ELSE [call EXCEPT !.pc = "get"]]
    /\ UNCHANGED <<authVars, patients, staffs, histories, report, visitors>>

\* PatientDAO.create resumes after await generateNextPatientCode()
RecordsCode(c) ==
    /\ calls[c].pc = "code"
    /\ calls' = [calls EXCEPT ![c] =
         [calls[c] EXCEPT !.pc = "write",
                          !.body.patient_code = generateNextPatientCode(LastRow(patients))]]
    /\ UNCHANGED <<authVars, patients, staffs, histories, report, visitors>>

\* updatePatient, deletePatient, updateMedicalHistory and deleteStaff resume
\* after their await getById(id)
RecordsGet(c) ==
    /\ calls[c].pc = "get"
    /\ calls[c].op \in {"updatePatient", "deletePatient", "updateMedicalHistory", "deleteStaff",
                        "reactivateStaff", "updateStaff", "getStaffById"}
    /\ LET call == calls[c]
           id == parseInt(call.id).num IN
       calls' = [calls EXCEPT ![c] =
         CASE call.op = "updateMedicalHistory" ->
                IF RowById(histories, id) = Null
                THEN Answer(call, EntityNotFoundError("Medical History"))
                ELSE IF call.body.patient_id # Undefined
                THEN [call EXCEPT !.pc = "patient"]
                ELSE historyStaffChecks(call, now)
           [] call.op \in {"deleteStaff", "reactivateStaff", "updateStaff", "getStaffById"} ->
                IF RowById(staffs, id) = Null
                THEN Answer(call, EntityNotFoundError("Staff"))
                ELSE IF call.op = "getStaffById"
                THEN Answer(call, [sent |-> RowById(staffs, id)])
                ELSE [call EXCEPT !.pc = "write"]
           [] OTHER ->
                IF RowById(patients, id) = Null
                THEN Answer(call, EntityNotFoundError("Patient"))
                ELSE [call EXCEPT !.pc = "write"]]
    /\ UNCHANGED <<authVars, patients, staffs, histories, report, visitors>>

\* createMedicalHistory and updateMedicalHistory resume after
\* await MedicalHistoryDAO.validatePatientExists(body.patient_id)
RecordsPatient(c) ==
    /\ calls[c].pc = "patient"
    /\ calls' = [calls EXCEPT ![c] =
         IF ~validateExists(patients, calls[c].body.patient_id)
         THEN Answer(calls[c], BadRequestError("Patient not found", ""))
         ELSE historyStaffChecks(calls[c], now)]
    /\ UNCHANGED <<authVars, patients, staffs, histories, report, visitors>>

\* a handler that writes the staff reference before it validates it
RecordsStaff_WriteFirst(c) ==
    /\ calls[c].pc = "staff"
    /\ calls[c].op \in {"createMedicalHistory", "updateMedicalHistory"}
    /\ calls' = [calls EXCEPT ![c] =
         IF ~validateExists(staffs, calls[c].body.staff_id)
         THEN Answer(calls[c], BadRequestError("Staff not found", ""))
         ELSE historyBodyChecks(calls[c], now)]
    /\ histories' =
         IF /\ calls[c].op = "updateMedicalHistory"
            /\ RowById(histories, parseInt(calls[c].id).num) # Null
         THEN [histories EXCEPT ![parseInt(calls[c].id).num].staff_id = calls[c].body.staff_id]
         ELSE histories
    /\ UNCHANGED <<authVars, patients, staffs, report, visitors>>

\* createMedicalHistory and updateMedicalHistory resume after
\* await MedicalHistoryDAO.validateStaffExists(body.staff_id)
RecordsStaff(c) ==
    /\ calls[c].pc = "staff"
    /\ calls[c].op \in {"createMedicalHistory", "updateMedicalHistory"}
    /\ calls' = [calls EXCEPT ![c] =
         IF ~validateExists(staffs, calls[c].body.staff_id)
         THEN Answer(calls[c], BadRequestError("Staff not found", ""))
         ELSE historyBodyChecks(calls[c], now)]
    /\ UNCHANGED <<authVars, patients, staffs, histories, report, visitors>>

\* the handler's write and its answer; prisma throws when the row to update
\* or delete is gone or a connect finds no row, and the handler answers with
\* InternalServerError.  The relation's action on a patient's delete is any
\* of ReferentialActions
RecordsWrite(c) ==
    /\ calls[c].pc = "write"
    /\ calls[c].op \in {"createPatient", "updatePatient", "deletePatient",
                        "createMedicalHistory", "updateMedicalHistory", "deleteStaff",
                        "reactivateStaff", "updateStaff"}
    /\ LET call == calls[c]
           id == parseInt(call.id).num
           sent(row) == [calls EXCEPT ![c] = Answer(call, [sent |-> row])]
           threw == [calls EXCEPT ![c] = Answer(call, InternalServerError)]
       IN CASE call.op = "createPatient" ->
                 LET done == createPatientRow(patients, call.body.name.val[1].w,
                                              call.body.patient_code) IN
                 /\ patients' = done.patients
                 /\ calls' = IF done.ok THEN sent(Len(patients) + 1) ELSE threw
                 /\ UNCHANGED <<histories, staffs>>
            [] call.op = "updatePatient" ->
                 LET refused == \/ RowById(patients, id) = Null
                                \/ CodeTaken(patients, id, call.body.patient_code) IN
                 /\ patients' = IF refused THEN patients
                                ELSE updatePatientRow(patients, id, call.body)
                 /\ calls' = IF refused THEN threw ELSE sent(id)
                 /\ UNCHANGED <<histories, staffs>>
            [] call.op = "deletePatient" ->
                 IF RowById(patients, id) = Null
                 THEN calls' = threw /\ UNCHANGED <<patients, histories, staffs>>
                 ELSE \E onDelete \in ReferentialActions :
                        LET done == deletePatientRow(patients, histories, id, onDelete) IN
                        /\ patients' = done.patients
                        /\ histories' = done.histories
                        /\ calls' = IF done.ok THEN sent(id) ELSE threw
                        /\ UNCHANGED staffs
            [] call.op = "createMedicalHistory" ->
                 LET done == createHistoryRow(histories, patients, staffs, call.body) IN
                 /\ histories' = done.histories
                 /\ calls' = IF done.ok THEN sent(Len(histories) + 1) ELSE threw
                 /\ UNCHANGED <<patients, staffs>>
            [] call.op = "updateMedicalHistory" ->
                 LET done == IF RowById(histories, id) = Null
                             THEN [ok |-> FALSE, histories |-> histories]
                             ELSE updateHistoryRow(histories, staffs, id, call.body) IN
                 /\ histories' = done.histories
                 /\ calls' = IF done.ok THEN sent(id) ELSE threw
                 /\ UNCHANGED <<patients, staffs>>
            [] OTHER ->
                 /\ staffs' =
                      CASE call.op = "deleteStaff" -> softDeleteStaff(staffs, id)
                        [] call.op = "reactivateStaff" ->
                             updateStaffRow(staffs, id, [active |-> Bool(TRUE)])
                        [] OTHER -> updateStaffRow(staffs, id, call.body)
                 /\ calls' = sent(id)
                 /\ UNCHANGED <<patients, histories>>
    /\ UNCHANGED <<authVars, report, visitors>>

InitRecords ==
    /\ NoAccounts
    /\ patients = <<>>
    /\ staffs = SeedStaffs
    /\ histories = <<>>
    /\ report = NoReport
    /\ visitors = <<>>
    /\ calls = [c \in Conns |-> NoCall]

NextRecords ==
    \/ \E c \in Conns : RecordsArrive(c)
    \/ \E c \in Conns : RecordsCode(c)
    \/ \E c \in Conns : RecordsGet(c)
    \/ \E c \in Conns : RecordsPatient(c)
    \/ \E c \in Conns : RecordsStaff(c)
    \/ \E c \in Conns : RecordsWrite(c)

SpecRecords == InitRecords /\ [][NextRecords]_vars

\* C19: once a patient is stored with a patient code, the code is the same in
\* every later state
C19_PatientCodeNeverChanges ==
    [][\A id \in 1..Len(patients) :
         (patients[id] # Gone /\ patients'[id] # Gone) =>
            patients'[id].patient_code = patients[id].patient_code]_vars

\* a stored history's patient is a stored patient, and its staff, if any, a
\* stored staff member
ReferencesHold(hs, ps, ss) ==
    \A i \in 1..Len(hs) :
       hs[i] # Gone =>
          /\ RowById(ps, hs[i].patient_id) \notin {Null, Gone}
          /\ hs[i].staff_id # Null => RowById(ss, hs[i].staff_id.num) \notin {Null, Gone}

StoredPain(v) == v = Null \/ (DOMAIN v = {"num"} /\ v.num \in MinPain..MaxPain)

\* a pain value of a body that is a number outside MinPain..MaxPain
Outside(v) == v \notin {Undefined, Null} /\ OutOfRange(v)

ValidationErrors ==
    {"MissingPropertyError", "BadParamIdError", "BadRequestError", "EntityNotFoundError"}

\* the step is one of the handler of connection c
StepOf(c) ==
    IF calls[c].pc = "idle" THEN calls'[c].pc # "idle" ELSE calls'[c] # calls[c]

\* C22: a step of createMedicalHistory or updateMedicalHistory that is not the
\* write leaves the stored medical histories as they are, and every answer
\* with a validation error comes from such a step
C22_RefusedBeforeAnyWrite ==
    [][\A c \in Conns :
         (/\ StepOf(c)
          /\ calls'[c].op \in {"createMedicalHistory", "updateMedicalHistory"}
          /\ \/ calls'[c].pc # "done"
             \/ "kind" \in DOMAIN calls'[c].res /\ calls'[c].res.kind \in ValidationErrors)
            => histories' = histories /\ calls[c].pc # "write"]_vars

\* an update that names no staff member of the table has been refused while a
\* history is stored
C22_Witness ==
    /\ Len(histories) >= 1 /\ histories[1] # Gone
    /\ calls["c1"].pc = "done" /\ calls["c1"].op = "updateMedicalHistory"
    /\ calls["c1"].res = BadRequestError("Staff not found", "")


(* ------------------------------- staff --------------------------------- *)

\* { name: { contains: term } }: the letters of term are a run of the letters
\* of name
Contains(name, term) ==
    LET Letters(w) ==
          CASE w = "Dewi" -> <<"D", "e", "w", "i">>
            [] w = "Eko" -> <<"E", "k", "o">>
            [] w = "ew" -> <<"e", "w">>
            [] w = "k" -> <<"k">>
            [] OTHER -> <<>>
        n == Letters(name)
        t == Letters(term)
    IN \E i \in 0..Len(n) :
          i + Len(t) <= Len(n) /\ \A j \in 1..Len(t) : n[i + j] = t[j]

\* orderBy: { name: 'asc' } of the staff rows found
OrderByName(found) ==
    LET before(a, b) == a = "Dewi" /\ b = "Eko"
    IN CHOOSE rows \in [1..Cardinality(found) -> found] :
          /\ \A row \in found : \E k \in DOMAIN rows : rows[k] = row
          /\ \A k, l \in DOMAIN rows : k < l => ~before(rows[l].name, rows[k].name)

\* StaffDAO.getAll(options)
getAll(ss, options) ==
    OrderByName({ss[i] : i \in {k \in 1..Len(ss) :
        /\ options.activeOnly # Bool(FALSE) => ss[k].active
        /\ options.search = Undefined \/ Contains(ss[k].name, options.search.val[1].w)}})

\* StaffDAO.getActiveStaff()
getActiveStaff(ss) == OrderByName({ss[i] : i \in {k \in 1..Len(ss) : ss[k].active}})

\* StaffDAO.searchStaff(searchTerm); the table has fewer rows than it takes
searchStaff(ss, searchTerm) ==
    OrderByName({ss[i] : i \in {k \in 1..Len(ss) :
        ss[k].active /\ Contains(ss[k].name, searchTerm.val[1].w)}})

\* req.query of getAllStaff and bulkSearchStaff
StaffQuery(activeOnly, search, query) ==
    [activeOnly |-> activeOnly, search |-> search, query |-> query]

\* the staff requests a client may send; id 0 stands for the path parameter
\* "abc"
StaffRequests(c) ==
    LET to(op, id, body) ==
            [NoCall EXCEPT !.op = op, !.body = body,
                           !.id = IF id = 0 THEN Param(<<>>, "abc") ELSE Param(<<id>>, "")]
        ids == 0..(Len(SeedStaffs) + 1)
    IN {to(op, id, <<>>) : op \in {"deleteStaff", "reactivateStaff", "getStaffById"}, id \in ids}
         \cup {to("getActiveStaff", 0, <<>>)}
         \cup IF c # "c1" THEN {}
              ELSE {to("updateStaff", id, [active |-> Bool(b)]) : id \in ids, b \in BOOLEAN}
                \cup {to("getAllStaff", 0, StaffQuery(activeOnly, search, Undefined)) :
                        activeOnly \in {Undefined, S("true"), S("false"), S("TRUE"), S("")},
                        search \in {Undefined, S("ew")}}
                \cup {to("bulkSearchStaff", 0, StaffQuery(Undefined, Undefined, query)) :
                        query \in {Undefined, S(""), S("ew"), S("k")}}

\* a staff request arrives on connection c and its handler runs to its first
\* await
StaffArrive(c) ==
    /\ calls[c].pc \in {"idle", "done"}
    /\ \E call \in StaffRequests(c) :
         calls' = [calls EXCEPT ![c] =
           IF call.op \in {"getAllStaff", "getActiveStaff", "bulkSearchStaff"}
           THEN [call EXCEPT !.pc = "list"]
           ELSE IF parseInt(call.id) = NaN THEN Answer(call, BadParamIdError)
           ELSE [call EXCEPT !.pc = "get"]]
    /\ UNCHANGED <<authVars, patients, staffs, histories, report, visitors>>

\* getAllStaff, getActiveStaff and bulkSearchStaff: the rows their query reads,
\* and the answer
StaffList(c) ==
    /\ calls[c].pc = "list"
    /\ LET call == calls[c]
           activeOnly == IF call.body.activeOnly = Undefined THEN S("true")
                         ELSE call.body.activeOnly
           options == [activeOnly |-> Bool(activeOnly = S("true")),
                       search |-> IF Falsy(call.body.search) THEN Undefined
                                  ELSE call.body.search]
       IN calls' = [calls EXCEPT ![c] = Answer(call, [sent |->
            CASE call.op = "getAllStaff" -> getAll(staffs, options)
              [] call.op = "bulkSearchStaff" /\ ~Falsy(call.body.query) ->
                   searchStaff(staffs, call.body.query)
              [] OTHER -> getActiveStaff(staffs)])]
    /\ UNCHANGED <<authVars, patients, staffs, histories, report, visitors>>

NextStaff ==
    \/ \E c \in Conns : StaffArrive(c)
    \/ \E c \in Conns : RecordsGet(c)
    \/ \E c \in Conns : RecordsWrite(c)
    \/ \E c \in Conns : StaffList(c)

SpecStaff == InitRecords /\ [][NextStaff]_vars


\* the listing requests that have been answered with rows
Listed(c) ==
    /\ calls[c].pc = "done"
    /\ calls[c].op \in {"getAllStaff", "getActiveStaff", "bulkSearchStaff"}
    /\ "sent" \in DOMAIN calls[c].res

\* every staff row is kept, getStaffById answers with the row of its id
\* whether it is active or not, and the listings of getActiveStaff,
\* bulkSearchStaff and getAllStaff hold active rows only, but for a
\* getAllStaff whose activeOnly is one of `unfiltered`
StaffSoftDeleted(unfiltered) ==
    /\ Len(staffs) = Len(SeedStaffs)
    /\ \A c \in Conns :
          /\ (calls[c].pc = "done" /\ calls[c].op = "getStaffById"
              /\ parseInt(calls[c].id) # NaN
              /\ parseInt(calls[c].id).num \in 1..Len(staffs))
                => /\ "sent" \in DOMAIN calls[c].res
                   /\ calls[c].res.sent.id = parseInt(calls[c].id).num
          /\ (/\ Listed(c)
              /\ calls[c].op = "getAllStaff" => calls[c].body.activeOnly \notin unfiltered)
                => \A k \in DOMAIN calls[c].res.sent : calls[c].res.sent[k].active

\* C23 as stated: a deactivated staff member is kept and answered by
\* getStaffById, and is in no listing of getActiveStaff, bulkSearchStaff or
\* getAllStaff unless the request carries activeOnly=false
C23_ListedUnlessActiveOnlyFalse ==
    StaffSoftDeleted({S("false")})

\* what holds of C23: a deactivated staff member is kept and answered by
\* getStaffById, and is in no listing of getActiveStaff, bulkSearchStaff or
\* getAllStaff when the request carries no activeOnly or activeOnly=true:
\* every other text, not only false, switches the filter off
C23_ListedOnlyWhenActive ==
    StaffSoftDeleted({S("false"), S("TRUE"), S("")})

\* deleteStaff(1) has been answered, and a getAllStaff without activeOnly
\* after it lists nobody
C23_Witness ==
    /\ calls["c2"].pc = "done" /\ calls["c2"].op = "deleteStaff"
    /\ calls["c2"].res = [sent |-> 1]
    /\ ~staffs[1].active
    /\ Listed("c1") /\ calls["c1"].op = "getAllStaff"
    /\ calls["c1"].body.activeOnly = Undefined /\ calls["c1"].body.search = Undefined
    /\ calls["c1"].res.sent = <<>>


(* ------------------------- account usernames --------------------------- *)

\* the usernames updateOwnProfile is asked for
ProfileNames == Usernames \cup {"cici", ""}

\* an update that no unique index checks
update_NoIndex(us, id, data) ==
    [ok |-> TRUE, users |-> [us EXCEPT ![id].username = data.username]]

\* UserDAO.update(id, data) with data = { username }: model.update throws when
\* another row holds the username (findUnique({where: {username}}) shows the
\* unique index)
update(us, id, data) ==
    IF \E i \in 1..Len(us) : i # id /\ us[i].username = data.username
    THEN [ok |-> FALSE, users |-> us]
    ELSE [ok |-> TRUE, users |-> [us EXCEPT ![id].username = data.username]]

\* a createUser request arrives, or an updateOwnProfile request that the auth
\* gate has admitted for an account of the table, and runs to its first await
AccountStart(c) ==
    /\ reqs[c].pc \in {"idle", "done"}
    /\ \/ \E b \in SignupBodies :
            /\ Len(users) + Cardinality(Creating) < MaxUsers
            /\ reqs' = [reqs EXCEPT ![c] =
                 Dispatch(Arrive([mode |-> "none", route |-> "createUser"], Undefined, b))]
       \/ \E id \in 1..Len(users), username \in ProfileNames :
            LET req == [Idle EXCEPT !.mode = "auth", !.route = "updateOwnProfile",
                                    !.body = [username |-> username, password |-> ""],
                                    !.decoded = LoginPayload(id, users[id].username),
                                    !.entered = 1]
            IN reqs' = [reqs EXCEPT ![c] =
                 IF username = "" THEN Finish(req, [kind |-> "MissingBodyError"])
                 ELSE [req EXCEPT !.pc = "profileGet"]]
    /\ UNCHANGED <<env, users, now, clinicVars>>

\* updateOwnProfile resumes after await UserDAO.getById(userId)
ProfileGet(c) ==
    /\ reqs[c].pc = "profileGet"
    /\ LET req == reqs[c]
           user == getById(users, req.decoded.id) IN
       reqs' = [reqs EXCEPT ![c] =
         IF user = Null THEN Finish(req, EntityNotFoundError("User"))
         ELSE IF req.body.username # user.username
         THEN [req EXCEPT !.pc = "profileCheck"]
         ELSE [req EXCEPT !.pc = "profileUpdate"]]
    /\ UNCHANGED <<env, users, now, clinicVars>>

\* updateOwnProfile resumes after await UserDAO.getByUsername(username)
ProfileCheck(c) ==
    /\ reqs[c].pc = "profileCheck"
    /\ LET req == reqs[c]
           existingUser == getByUsername(users, req.body.username) IN
       reqs' = [reqs EXCEPT ![c] =
         IF existingUser # Null /\ existingUser.id # req.decoded.id
         THEN Finish(req, BadRequestError("Username already exists!", "USERNAME_EXISTS"))
         ELSE [req EXCEPT !.pc = "profileUpdate"]]
    /\ UNCHANGED <<env, users, now, clinicVars>>

\* updateOwnProfile: await UserDAO.update(userId, { username }), then the
\* response
ProfileUpdate(c) ==
    /\ reqs[c].pc = "profileUpdate"
    /\ LET req == reqs[c]
           done == update(users, req.decoded.id, [username |-> req.body.username]) IN
       /\ users' = done.users
       /\ reqs' = [reqs EXCEPT ![c] =
            IF done.ok THEN Finish(req, [id |-> req.decoded.id])
            ELSE Finish(req, InternalServerError)]
    /\ UNCHANGED <<env, now, clinicVars>>

NextAccounts ==
    \/ \E c \in Conns : AccountStart(c)
    \/ \E c \in Conns : CreateCheck(c)
    \/ \E c \in Conns : CreateInsert(c)
    \/ \E c \in Conns : ProfileGet(c)
    \/ \E c \in Conns : ProfileCheck(c)
    \/ \E c \in Conns : ProfileUpdate(c)

InitAccounts == NoAccounts /\ NoClinic

SpecAccounts == InitAccounts /\ [][NextAccounts]_vars

\* no two accounts have the same username
UniqueUsernames(us) ==
    \A i, j \in 1..Len(us) : us[i].username = us[j].username => i = j

\* C24: no step of createUser or updateOwnProfile gives two accounts the same
\* username, and a step that answers a request with an error changes no
\* account
C24_UsernamesStayUnique ==
    [][/\ UniqueUsernames(users) => UniqueUsernames(users')
       /\ \A c \in Conns :
             (reqs'[c] # reqs[c] /\ reqs'[c].pc = "done" /\ "kind" \in DOMAIN reqs'[c].res)
                => users' = users]_vars

\* two accounts asked for the same new username at once: one has it, the
\* other was refused by the write
C24_Witness ==
    /\ Len(users) = 2
    /\ users[1].username = "cici" /\ users[2].username # "cici"
    /\ reqs["c2"].pc = "done" /\ reqs["c2"].route = "updateOwnProfile"
    /\ reqs["c2"].body.username = "cici" /\ reqs["c2"].decoded.id = 2
    /\ reqs["c2"].res = InternalServerError


(* --------------------------- patient listings -------------------------- *)

\* rows of the patient table the listings are asked over
MaxListed == 2

\* the patient tables createPatient requests of the accounts leave behind:
\* created_by is the account of the request
PatientTables ==
    UNION {{[i \in 1..n |-> [id |-> i, name |-> "Sari", patient_code |-> Code("PAT-", i),
                             created_by |-> by[i]]] :
              by \in [1..n -> 1..MaxUsers]} : n \in 0..MaxListed}

\* findMany({where, orderBy: {id: 'desc'}, take}) on the patient table
FindPatients(ps, where, take) ==
    LET ids == {i \in 1..Len(ps) :
                  where.created_by # Undefined => ps[i].created_by = where.created_by.num}
        rows == CHOOSE r \in [1..Cardinality(ids) -> {ps[i] : i \in ids}] :
                   /\ \A i \in ids : \E k \in DOMAIN r : r[k] = ps[i]
                   /\ \A k, l \in DOMAIN r : k < l => r[k].id > r[l].id
    IN IF take = Undefined \/ take.num >= Len(rows) THEN rows
       ELSE SubSeq(rows, 1, take.num)

\* PatientDAO.getAll(options), for options that carry at most created_by
getAllPatientRows(ps, options) ==
    FindPatients(ps, [created_by |-> options.created_by], Undefined)

\* PatientDAO.getRecentPatients(limit) and getPatientsByDoctor(created_by)
getRecentPatients(ps, limit) == FindPatients(ps, [created_by |-> Undefined], limit)

getPatientsByDoctor(ps, created_by) ==
    FindPatients(ps, [created_by |-> created_by], Undefined)

\* the listing requests the auth gate has admitted: req.decoded with the
\* account's id and the role claim of its token, and the limit of the query;
\* search, gender and date filters, which only narrow a listing, are left out
ListingRequests ==
    {[NoCall EXCEPT !.op = op, !.pc = "list",
                    !.body = [decoded |-> [id |-> id, role |-> role], limit |-> limit]] :
       op \in {"getAllPatients", "getRecentPatients", "exportPatientsToCSV"},
       id \in 1..MaxUsers, role \in {Undefined, S("ADMIN")},
       limit \in {Undefined, Param(<<1>>, "")}}

\* a listing request arrives on connection c and runs to its await
ListingArrive(c) ==
    /\ calls[c].pc \in {"idle", "done"}
    /\ \E call \in ListingRequests : calls' = [calls EXCEPT ![c] = call]
    /\ UNCHANGED <<authVars, patients, staffs, histories, report, visitors>>

\* getAllPatients, getRecentPatients and exportPatientsToCSV: the rows their
\* query reads, and the answer
ListingAnswer(c) ==
    /\ calls[c].pc = "list"
    /\ calls[c].op \in {"getAllPatients", "getRecentPatients", "exportPatientsToCSV"}
    /\ LET call == calls[c]
           decoded == call.body.decoded
           limit == IF call.body.limit = Undefined THEN Undefined
                    ELSE parseInt(call.body.limit)
           own == getPatientsByDoctor(patients, Num(decoded.id))
       IN calls' = [calls EXCEPT ![c] = Answer(call, [sent |->
            CASE call.op = "getAllPatients" ->
                   getAllPatientRows(patients, [created_by |-> Undefined])
              [] call.op = "exportPatientsToCSV" ->
                   getAllPatientRows(patients,
                     [created_by |-> IF decoded.role # S("ADMIN") THEN Num(decoded.id)
                                     ELSE Undefined])
              [] OTHER ->
                   IF decoded.role = S("ADMIN")
                   THEN getRecentPatients(patients,
                          IF limit = Undefined THEN Num(10) ELSE limit)
                   ELSE IF limit = Undefined \/ limit.num >= Len(own) THEN own
                   ELSE SubSeq(own, 1, limit.num)])]
    /\ UNCHANGED <<authVars, patients, staffs, histories, report, visitors>>

InitListing ==
    /\ NoAccounts
    /\ patients \in PatientTables
    /\ staffs = <<>>
    /\ histories = <<>>
    /\ report = NoReport
    /\ visitors = <<>>
    /\ calls = [c \in Conns |-> NoCall]

NextListing ==
    \/ \E c \in Conns : ListingArrive(c)
    \/ \E c \in Conns : ListingAnswer(c)

SpecListing == InitListing /\ [][NextListing]_vars

\* the listings of the routes in `ops` answered to an account without the
\* ADMIN role hold only patients that account created
OwnPatientsOnly(ops) ==
    \A c \in Conns :
       (/\ calls[c].pc = "done" /\ calls[c].op \in ops
        /\ calls[c].body.decoded.role # S("ADMIN"))
          => \A k \in DOMAIN calls[c].res.sent :
                calls[c].res.sent[k].created_by = calls[c].body.decoded.id

\* C25 as stated: every listing of getAllPatients, getRecentPatients and
\* exportPatientsToCSV answered to an account without the ADMIN role holds
\* only patients that account created
C25_ListingsScopedToCreator ==
    OwnPatientsOnly({"getAllPatients", "getRecentPatients", "exportPatientsToCSV"})

\* what holds of C25: the listings of getRecentPatients and
\* exportPatientsToCSV are scoped to the account
C25_RecentAndExportScoped == OwnPatientsOnly({"getRecentPatients", "exportPatientsToCSV"})


(* ------------------- callbacks of the token verifier ------------------ *)

\* C26: a request that entered processToken has, once processToken is past
\* its lookup, exactly one callback invoked, the success or the error one,
\* and none while the lookup is awaited, also when jwt.verify or the lookup
\* raises; a request that went through a gate had its continuation called
\* exactly once, and not at all while the gate still awaits
C26_ExactlyOneCallbackOneNext ==
    \A c \in Conns :
       LET req == reqs[c] IN
       /\ req.verifier <= 1
       /\ req.pc = "lookup" => req.verifier = 1 /\ req.calls = <<>> /\ req.nexts = <<>>
       /\ (req.verifier = 1 /\ req.pc # "lookup") =>
             /\ Len(req.calls) = 1
             /\ req.calls[1].cb \in {"success", "error"}
       /\ req.verifier = 0 => req.calls = <<>>
       /\ (req.mode \in {"auth", "optional", "developer"} /\ req.pc # "lookup") =>
             Len(req.nexts) = 1

\* a request whose lookup raised and a request whose token failed to decode
\* have both run to their single error callback, one through each gate
C26_Witness ==
    \E c, d \in Conns :
       /\ reqs[c].found = Threw /\ reqs[c].pc = "done"
       /\ reqs[c].calls # <<>> /\ reqs[c].calls[1].cb = "error"
       /\ reqs[d].mode # reqs[c].mode /\ reqs[d].mode \in {"auth", "optional"}
       /\ reqs[d].verifier = 1 /\ reqs[d].found = NotYet /\ reqs[d].pc = "done"
       /\ reqs[d].calls # <<>> /\ "err" \in DOMAIN reqs[d].calls[1].arg


(* ------------------- concurrency of the report's tasks ----------------- *)

\* the tasks of the report in flight that wait for their retrieval
Awaiting(rep) == {i \in 1..Len(rep.tasks) : rep.tasks[i].promise.state = "pending"}

\* C27: within one report composition every task has been started, its
\* retrieval called, before any of them is waited for; the composer returns
\* only when every task has completed; and a retrieval that ends, with null
\* or with data, completes its own task and leaves every sibling as it was,
\* neither cancelled nor failed
C27_AllStartedAllJoined ==
    [][/\ (report.pc = "query" /\ report'.pc = "join") =>
             /\ Len(report'.tasks) = Len(report'.rows)
             /\ \A i \in 1..Len(report'.tasks) :
                   /\ report'.tasks[i].outcome = NoOutcome
                   /\ isValidImageUrl(report'.rows[i].body_annotation) =>
                         i \in Awaiting(report') /\ report'.tasks[i].fetches = 1
       /\ (report.pc = "join" /\ report'.pc = "join") =>
             \E i \in Awaiting(report) :
                /\ report'.tasks[i].promise.state = "fulfilled"
                /\ \A j \in 1..Len(report.tasks) \ {i} : report'.tasks[j] = report.tasks[j]
       /\ (report.pc = "join" /\ report'.pc = "done") =>
             /\ Awaiting(report) = {}
             /\ report'.tasks = report.tasks
             /\ \A i \in 1..Len(report.tasks) : report.tasks[i].promise.state = "fulfilled"
             /\ report'.res.status # 500]_vars

\* C27 happens: of two tasks started together, the retrieval that ended
\* first gave null and the sibling's, ending after it, gave an image; the
\* report was returned with both sessions
C27_Witness ==
    /\ Reported
    /\ Len(report.tasks) = 2
    /\ \E i, j \in 1..2 :
         /\ report.tasks[i].at = 1 /\ report.tasks[j].at = 2
         /\ report.tasks[i].promise.value.body_annotation_base64 = Null
         /\ IsDataUri(report.tasks[j].promise.value.body_annotation_base64)
    /\ report.res.data.total_sessions = 2

\* C28: within one report composition the attachment of each record is
\* retrieved at most once, and only when it is a valid image URL; a retrieval
\* that failed is recorded as null on the settled task and is not called again
C28_FetchedAtMostOnce ==
    \A i \in 1..Len(report.tasks) :
       LET task == report.tasks[i] IN
       /\ task.fetches <= 1
       /\ task.fetches = 1 <=> isValidImageUrl(task.history.body_annotation)
       /\ task.outcome # NoOutcome =>
             /\ task.fetches = 1
             /\ task.promise.state = "fulfilled"
             /\ task.outcome.kind # "ok" => task.promise.value.body_annotation_base64 = Null

\* C28 happens: a report was returned in which one retrieval failed on the
\* network, was called once, and its session carries null
C28_Witness ==
    /\ Reported
    /\ \E i \in Fetched :
         /\ report.tasks[i].outcome.kind = "network"
         /\ report.tasks[i].fetches = 1
         /\ report.res.data.sessions[i].body_annotation_base64 = Null
         /\ report.res.data.sessions[i].body_annotation_url = report.rows[i].body_annotation


(* ------------------------ generated patient codes ---------------------- *)

\* patient ids given out while codes are generated
MaxCoded == 3

\* the createPatient requests in flight past their validation
CreatingPatients ==
    {c \in Conns : calls[c].op = "createPatient" /\ calls[c].pc \in {"code", "write"}}

\* createPatient with no code or with the code PAT-2 written by the client,
\* and deletePatient, on either connection; `given` keeps the patient_code of
\* the request as it arrived
CodeRequests ==
    {[NoCall EXCEPT !.op = "createPatient", !.id = Param(<<>>, ""),
                    !.body = [given |-> code] @@ PatientBody(S("Sari"), code)] :
       code \in {Undefined, S(" "), Code("PAT-", 2)}}
      \cup {[NoCall EXCEPT !.op = "deletePatient", !.id = Param(<<id>>, "")] :
              id \in 1..MaxCoded}

\* createPatient and deletePatient up to their first await
CodesArrive(c) ==
    /\ calls[c].pc \in {"idle", "done"}
    /\ \E call \in CodeRequests :
         /\ call.op = "createPatient" =>
               Len(patients) + Cardinality(CreatingPatients) < MaxCoded
         /\ calls' = [calls EXCEPT ![c] =
              IF call.op = "deletePatient" THEN [call EXCEPT !.pc = "get"]
              ELSE IF Falsy(call.body.patient_code) \/ trim(call.body.patient_code) = S("")
              THEN [call EXCEPT !.pc = "code"]
              ELSE [call EXCEPT !.pc = "write"]]
    /\ UNCHANGED <<authVars, patients, staffs, histories, report, visitors>>

NextCodes ==
    \/ \E c \in Conns : CodesArrive(c)
    \/ \E c \in Conns : RecordsCode(c)
    \/ \E c \in Conns : RecordsGet(c)
    \/ \E c \in Conns : RecordsWrite(c)

SpecCodes == InitRecords /\ [][NextCodes]_vars

\* the createPatient request on c came with no code, or a blank one
NoCodeSupplied(c) ==
    /\ calls[c].op = "createPatient"
    /\ Falsy(calls[c].body.given) \/ trim(calls[c].body.given) = S("")

\* C29 as stated: a createPatient request that passed validation and came
\* with no code is given the code PAT-(highest stored id + 1), and its write
\* completes successfully, storing a patient whose code no other stored
\* patient has
C29_GeneratedCodeStoredUnique ==
    [][\A c \in Conns :
         /\ (NoCodeSupplied(c) /\ calls[c].pc = "code" /\ calls'[c].pc = "write") =>
               calls'[c].body.patient_code
                  = Code("PAT-", (IF LastRow(patients) = Null THEN 0
                                  ELSE LastRow(patients).id) + 1)
         /\ (NoCodeSupplied(c) /\ calls[c].pc = "write" /\ calls'[c].pc = "done") =>
               /\ "sent" \in DOMAIN calls'[c].res
               /\ patients'[Len(patients')].patient_code = calls[c].body.patient_code
               /\ ~CodeTaken(patients', Len(patients'), calls[c].body.patient_code)]_vars


(* ---------------------------- visitor statistics ----------------------- *)

\* model.count({ where }) on the visitors table; where is {}, or names
\* checked_out_at: null or checked_out_at: { not: null }
Count(vs, where) ==
    Cardinality({i \in 1..Len(vs) :
                   /\ vs[i] # Gone
                   /\ "checked_out_at" \in DOMAIN where =>
                         (vs[i].checked_out_at = Null) = (where.checked_out_at = Null)})

\* getVisitorStats arrives on connection c with no date range and runs to the
\* first await of VisitorDAO.getStats
StatsArrive(c) ==
    /\ calls[c].pc \in {"idle", "done"}
    /\ calls' = [calls EXCEPT ![c] =
                   [NoCall EXCEPT !.op = "getVisitorStats", !.pc = "totalVisitors"]]
    /\ UNCHANGED <<authVars, patients, staffs, histories, report, visitors>>

\* VisitorDAO.getStats resumes after one of its awaited queries, in the order
\* totalVisitors, visitorsByProfile, checkedOutCount, activeVisitors,
\* recentVisitors, and after the last the controller sends the result; the
\* profiles of the rows are not followed, so the groups are not kept
StatsQuery(c) ==
    /\ calls[c].op = "getVisitorStats"
    /\ calls[c].pc \in {"totalVisitors", "visitorsByProfile", "checkedOutCount",
                        "activeVisitors", "recentVisitors"}
    /\ LET call == calls[c]
           so(name, value, pc) ==
               [call EXCEPT !.pc = pc,
                            !.body = IF call.body = <<>> THEN [n \in {name} |-> value]
                                     ELSE [n \in {name} |-> value] @@ call.body]
       IN calls' = [calls EXCEPT ![c] =
            CASE call.pc = "totalVisitors" ->
                   so("totalVisitors", Count(visitors, <<>>), "visitorsByProfile")
              [] call.pc = "visitorsByProfile" -> [call EXCEPT !.pc = "checkedOutCount"]
              [] call.pc = "checkedOutCount" ->
                   so("checkedOutCount",
                      Count(visitors, [checked_out_at |-> [not |-> Null]]),
                      "activeVisitors")
              [] call.pc = "activeVisitors" ->
                   so("activeVisitors",
                      Count(visitors, [checked_out_at |-> Null]),
                      "recentVisitors")
              [] OTHER ->
                   Answer(call, [sent |->
                     [recentVisitors |->
                        {visitors[i].id : i \in {k \in 1..Len(visitors) :
                            visitors[k] # Gone /\ visitors[k].checked_out_at = Null}}]
                       @@ call.body])]
    /\ UNCHANGED <<authVars, patients, staffs, histories, report, visitors>>

NextStats ==
    \/ VisitorArrive("c1")
    \/ \E c \in Conns : VisitorGet(c)
    \/ \E c \in Conns : VisitorStaff(c)
    \/ \E c \in Conns : VisitorWrite(c)
    \/ StatsArrive("c2")
    \/ StatsQuery("c2")

SpecStats == InitVisitor /\ [][NextStats]_vars

\* C30 as stated: in every result of getVisitorStats the checked-out count
\* and the active count add up to the total, whatever createVisitor,
\* checkOutVisitor and deleteVisitor requests run between its count queries
C30_StatsAddUp ==
    \A c \in Conns :
       (calls[c].op = "getVisitorStats" /\ calls[c].pc = "done") =>
          calls[c].res.sent.checkedOutCount + calls[c].res.sent.activeVisitors
             = calls[c].res.sent.totalVisitors

\* what holds of C30: the two partial counts split the rows the total
\* counts, so the counts add up whenever the total and the checked-out count
\* still describe the table when the active rows are counted
C30_StatsAddUpWhenQuiet ==
    [][\A c \in Conns :
         (/\ calls[c].op = "getVisitorStats" /\ calls[c].pc = "activeVisitors"
          /\ calls'[c].pc = "recentVisitors"
          /\ calls[c].body.totalVisitors = Count(visitors, <<>>)
          /\ calls[c].body.checkedOutCount
                = Count(visitors, [checked_out_at |-> [not |-> Null]])) =>
            calls'[c].body.checkedOutCount + calls'[c].body.activeVisitors
               = calls'[c].body.totalVisitors]_vars

====
